---- MODULE Spec2Model ----
(***************************************************************************)
(* The subagent tool of claudetool/subagent.go: the slug sanitizer, the    *)
(* request decoder and validator, timeout / wait / model resolution, the   *)
(* call to the conversation directory (SubagentDB), the dispatch to the    *)
(* SubagentRunner and the composition of the tool output.                  *)
(*                                                                         *)
(* Strings are sequences of one-character strings.  A literal of a format  *)
(* string is kept as one element (a chunk): "slug is required" is the      *)
(* one-element sequence <<"slug is required">>.  Durations are counted in  *)
(* seconds (time.Second is the unit).                                      *)
(***************************************************************************)
EXTENDS Integers, Sequences, FiniteSets, TLC

VARIABLES
    slugIn,         \* SpecSan: the string handed to sanitizeSlug
    slugOut,        \* SpecSan: what sanitizeSlug returned, call after call
    sanPc,          \* SpecSan: "in", "out" after one call, "again" after two
    ModelID,        \* SubagentTool.ModelID, per tool (one tool per parent)
    AvailableModels,\* SubagentTool.AvailableModels (the registry)
    WorkingDir,     \* SubagentTool.WorkingDir, per tool
    conversations,  \* mockSubagentDB.conversations: key -> conversation id
    call,           \* the tool call in flight, or the last one that returned
    firstReturned,  \* history: key -> the id the mock directory returned first
    tool,           \* SpecDesc: the llm.Tool that Tool() built
    web,            \* SpecWeb: the HTTP request in the middleware chain
    directory,      \* SpecDir, SpecRun: the conversation directory's store
    requests,       \* SpecDir: the directory calls in flight
    children,       \* SpecRun: the child conversations' executions
    runner          \* SpecRun: the parents' contexts and the call's outcome

\* The variables of Spec, SpecAny and SpecSan, and the variables the other
\* specifications add.
coreVars == <<slugIn, slugOut, sanPc, ModelID, AvailableModels, WorkingDir,
              conversations, call, firstReturned>>
extVars == <<tool, web, directory, requests, children, runner>>

vars == <<slugIn, slugOut, sanPc, ModelID, AvailableModels, WorkingDir,
          conversations, call, firstReturned,
          tool, web, directory, requests, children, runner>>

-----------------------------------------------------------------------------
(* Bounds of the model. *)

\* Longest string handed to sanitizeSlug in SpecSan.
MaxLen == 5

-----------------------------------------------------------------------------
(* Strings. *)

\* U+212A KELVIN SIGN, a non-ASCII rune whose lower case is the ASCII "k".
KELVIN == "U+212A"

UpperLetters ==
    <<"A","B","C","D","E","F","G","H","I","J","K","L","M",
      "N","O","P","Q","R","S","T","U","V","W","X","Y","Z">>

LowerLetters ==
    <<"a","b","c","d","e","f","g","h","i","j","k","l","m",
      "n","o","p","q","r","s","t","u","v","w","x","y","z">>

Digits == {"0","1","2","3","4","5","6","7","8","9"}

Range(f) == {f[i] : i \in DOMAIN f}

\* unicode.ToLower of one rune.
ToLowerRune(r) ==
    IF r = KELVIN THEN "k"
    ELSE IF \E i \in 1..26 : UpperLetters[i] = r
         THEN LowerLetters[CHOOSE i \in 1..26 : UpperLetters[i] = r]
         ELSE r

\* strings.ToLower.
ToLower(s) == [i \in 1..Len(s) |-> ToLowerRune(s[i])]

\* The variant of KeepRune that maps only ' ' to '-', and drops '_'.
KeepRuneNoUnderscore(r) ==
    IF r \in Range(LowerLetters) \/ r \in Digits \/ r = "-" THEN <<r>>
    ELSE IF r = " " THEN <<"-">>
    ELSE <<>>

\* The body of sanitizeSlug's loop: what one rune adds to the builder.
KeepRune(r) ==
    IF r \in Range(LowerLetters) \/ r \in Digits \/ r = "-" THEN <<r>>
    ELSE IF r = " " \/ r = "_" THEN <<"-">>
    ELSE <<>>

RECURSIVE FilterRunes(_)
\* sanitizeSlug's loop over the runes of the lowered string.
FilterRunes(s) ==
    IF s = <<>> THEN <<>> ELSE KeepRune(Head(s)) \o FilterRunes(Tail(s))

\* strings.Contains(s, "--").
ContainsDoubleHyphen(s) ==
    \E i \in 1..(Len(s) - 1) : s[i] = "-" /\ s[i + 1] = "-"

RECURSIVE ReplaceAllDoubleHyphen(_)
\* strings.ReplaceAll(s, "--", "-"): the matches are taken left to right and
\* do not overlap.
ReplaceAllDoubleHyphen(s) ==
    IF Len(s) < 2 THEN s
    ELSE IF s[1] = "-" /\ s[2] = "-"
         THEN <<"-">> \o ReplaceAllDoubleHyphen(SubSeq(s, 3, Len(s)))
         ELSE <<s[1]>> \o ReplaceAllDoubleHyphen(Tail(s))

\* The variant of CollapseHyphens that replaces once ("if" for "for").
CollapseHyphensOnce(s) ==
    IF ContainsDoubleHyphen(s) THEN ReplaceAllDoubleHyphen(s) ELSE s

RECURSIVE CollapseHyphens(_)
\* for strings.Contains(s, "--") { s = strings.ReplaceAll(s, "--", "-") }
CollapseHyphens(s) ==
    IF ContainsDoubleHyphen(s)
    THEN CollapseHyphens(ReplaceAllDoubleHyphen(s))
    ELSE s

RECURSIVE TrimLeftHyphens(_)
TrimLeftHyphens(s) ==
    IF s # <<>> /\ Head(s) = "-" THEN TrimLeftHyphens(Tail(s)) ELSE s

RECURSIVE TrimRightHyphens(_)
TrimRightHyphens(s) ==
    IF s # <<>> /\ s[Len(s)] = "-"
    THEN TrimRightHyphens(SubSeq(s, 1, Len(s) - 1))
    ELSE s

\* The variant of TrimHyphens that trims the left end only.
TrimHyphensLeftOnly(s) == TrimLeftHyphens(s)

\* strings.Trim(s, "-").
TrimHyphens(s) == TrimRightHyphens(TrimLeftHyphens(s))

sanitizeSlug(slug) == TrimHyphens(CollapseHyphens(FilterRunes(ToLower(slug))))

-----------------------------------------------------------------------------
(* The JSON payload of a tool call and its decoding into subagentInput. *)

\* One member of the JSON object: absent, null, or a value of a JSON type.
JAbsent == [t |-> "absent", s |-> <<>>, n |-> 0, b |-> FALSE]
JNull == [t |-> "null", s |-> <<>>, n |-> 0, b |-> FALSE]
JStr(s) == [t |-> "string", s |-> s, n |-> 0, b |-> FALSE]
JNum(n) == [t |-> "number", s |-> <<>>, n |-> n, b |-> FALSE]
JBool(b) == [t |-> "bool", s |-> <<>>, n |-> 0, b |-> b]

\* A payload that is a JSON object with the five members of subagentInput.
Obj(slug, prompt, timeout, wait, model) ==
    [ok |-> TRUE, slug |-> slug, prompt |-> prompt,
     timeout_seconds |-> timeout, wait |-> wait, model |-> model]

\* A payload that is not JSON at all.
Malformed ==
    [ok |-> FALSE, slug |-> JAbsent, prompt |-> JAbsent,
     timeout_seconds |-> JAbsent, wait |-> JAbsent, model |-> JAbsent]

\* A nil *bool, and a pointer to b.
NilBool == [isNil |-> TRUE, v |-> FALSE]
PtrBool(b) == [isNil |-> FALSE, v |-> b]

\* encoding/json leaves the zero value for an absent or null member and
\* reports a type error for a value of another JSON type.
FieldOk(v, type) == v.t \in {"absent", "null", type}

\* json.Unmarshal(m, &req): err, and the fields of subagentInput.
Decode(raw) ==
    IF /\ raw.ok
       /\ FieldOk(raw.slug, "string")
       /\ FieldOk(raw.prompt, "string")
       /\ FieldOk(raw.timeout_seconds, "number")
       /\ FieldOk(raw.wait, "bool")
       /\ FieldOk(raw.model, "string")
    THEN [err |-> FALSE,
          Slug |-> raw.slug.s,
          Prompt |-> raw.prompt.s,
          TimeoutSeconds |-> raw.timeout_seconds.n,
          Wait |-> IF raw.wait.t = "bool" THEN PtrBool(raw.wait.b) ELSE NilBool,
          Model |-> raw.model.s]
    ELSE [err |-> TRUE, Slug |-> <<>>, Prompt |-> <<>>, TimeoutSeconds |-> 0,
          Wait |-> NilBool, Model |-> <<>>]

-----------------------------------------------------------------------------
(* The tool output. *)

NoDisplay == [slug |-> <<>>, conversation_id |-> <<>>]

\* The llm.ToolOut of a call that has not returned.
NoOut ==
    [isErr |-> FALSE, Error |-> <<>>, hasContent |-> FALSE, LLMContent |-> <<>>,
     hasDisplay |-> FALSE, Display |-> NoDisplay]

\* llm.ErrorfToolOut: a tool output that carries the error and nothing else.
ErrorfToolOut(msg) ==
    [isErr |-> TRUE, Error |-> msg, hasContent |-> FALSE, LLMContent |-> <<>>,
     hasDisplay |-> FALSE, Display |-> NoDisplay]

-----------------------------------------------------------------------------
(* Timeout, wait and model resolution of Run. *)

DefaultTimeoutSeconds == 60
MaxTimeoutSeconds == 300

\* The variant of ResolveTimeout without the upper clamp.
ResolveTimeoutNoClamp(ts) ==
    IF ts > 0 THEN ts ELSE DefaultTimeoutSeconds

\* timeout := 60s; if req.TimeoutSeconds > 0 { clamp to 300; timeout = it }
ResolveTimeout(ts) ==
    IF ts > 0
    THEN IF ts > MaxTimeoutSeconds THEN MaxTimeoutSeconds ELSE ts
    ELSE DefaultTimeoutSeconds

\* The variant of ResolveWait that ignores the request.
ResolveWaitAlways(w) == TRUE

\* wait := true; if req.Wait != nil { wait = *req.Wait }
ResolveWait(w) == IF w.isNil THEN TRUE ELSE w.v

\* The loop that looks the requested model up in AvailableModels.
ModelFound(models, m) == \E i \in 1..Len(models) : models[i].ID = m

RECURSIVE Join(_, _)
\* strings.Join(elems, sep).
Join(elems, sep) ==
    IF elems = <<>> THEN <<>>
    ELSE IF Len(elems) = 1 THEN elems[1]
    ELSE elems[1] \o sep \o Join(Tail(elems), sep)

\* The ids of the registry, in its order.
ModelIDs(models) == [i \in 1..Len(models) |-> models[i].ID]

\* What %q (strconv.Quote) writes for one rune: '"' and '\' get a backslash.
QuoteRune(r) ==
    IF r = "\"" THEN <<"\\", "\"">>
    ELSE IF r = "\\" THEN <<"\\", "\\">>
    ELSE <<r>>

RECURSIVE QuoteRunes(_)
QuoteRunes(s) ==
    IF s = <<>> THEN <<>> ELSE QuoteRune(Head(s)) \o QuoteRunes(Tail(s))

\* fmt's %q of a string.
Quote(s) == <<"\"">> \o QuoteRunes(s) \o <<"\"">>

\* The variant of UnknownModelError that lists no ids.
UnknownModelErrorNoList(models, m) ==
    <<"unknown model ">> \o Quote(m) \o <<"; available: ">>

\* fmt.Errorf("unknown model %q; available: %s", req.Model, Join(ids, ", "))
UnknownModelError(models, m) ==
    <<"unknown model ">> \o Quote(m) \o <<"; available: ">>
        \o Join(ModelIDs(models), <<",", " ">>)

\* The variant of SelectModel that never overrides the parent's model.
SelectModelParentOnly(parentModel, models, m) ==
    IF m # <<>> /\ Len(models) > 0 /\ ~ModelFound(models, m)
    THEN [ok |-> FALSE, modelID |-> <<>>, err |-> UnknownModelError(models, m)]
    ELSE [ok |-> TRUE, modelID |-> parentModel, err |-> <<>>]

\* A variant of SelectModel: an explicit req.Model overrides the parent's
\* model without a membership test.
SelectModelUntested(parentModel, models, m) ==
    IF m # <<>>
    THEN [ok |-> TRUE, modelID |-> m, err |-> <<>>]
    ELSE [ok |-> TRUE, modelID |-> parentModel, err |-> <<>>]

\* A variant of SelectModel: the membership test is made for every registry,
\* the empty one too.
SelectModelAlwaysTested(parentModel, models, m) ==
    IF m # <<>>
    THEN IF ~ModelFound(models, m)
         THEN [ok |-> FALSE, modelID |-> <<>>,
               err |-> UnknownModelError(models, m)]
         ELSE [ok |-> TRUE, modelID |-> m, err |-> <<>>]
    ELSE [ok |-> TRUE, modelID |-> parentModel, err |-> <<>>]

\* modelID := s.ModelID; an explicit req.Model overrides it, after the
\* membership test when the registry is not empty.
SelectModel(parentModel, models, m) ==
    IF m # <<>>
    THEN IF Len(models) > 0 /\ ~ModelFound(models, m)
         THEN [ok |-> FALSE, modelID |-> <<>>,
               err |-> UnknownModelError(models, m)]
         ELSE [ok |-> TRUE, modelID |-> m, err |-> <<>>]
    ELSE [ok |-> TRUE, modelID |-> parentModel, err |-> <<>>]

-----------------------------------------------------------------------------
(* Decoding and validation of Run, up to the call of the directory. *)

\* The text of json.Unmarshal's error, which Run wraps with %w.
JSONError == <<"<json.Unmarshal error>">>

\* The variant of ValidateFields that does not test the sanitized slug.
ValidateFieldsNoSanitizedTest(req) ==
    IF req.Slug = <<>> THEN <<"slug is required">>
    ELSE IF req.Prompt = <<>> THEN <<"prompt is required">>
    ELSE <<>>

\* A variant of ValidateFields: both required fields are tested before the
\* slug is sanitized.
ValidateFieldsRequiredFirst(req) ==
    IF req.Slug = <<>> THEN <<"slug is required">>
    ELSE IF req.Prompt = <<>> THEN <<"prompt is required">>
    ELSE IF sanitizeSlug(req.Slug) = <<>>
         THEN <<"slug must contain alphanumeric characters">>
    ELSE <<>>

\* The tests of req.Slug, of the sanitized slug and of req.Prompt, in the
\* order Run makes them: the message of the first that fails, or <<>>.
ValidateFields(req) ==
    IF req.Slug = <<>> THEN <<"slug is required">>
    ELSE IF sanitizeSlug(req.Slug) = <<>>
         THEN <<"slug must contain alphanumeric characters">>
    ELSE IF req.Prompt = <<>> THEN <<"prompt is required">>
    ELSE <<>>

\* What Run has resolved when it turns to the directory.
Resolved(slug, prompt, timeout, wait, modelID) ==
    [ok |-> TRUE, out |-> NoOut, slug |-> slug, prompt |-> prompt,
     timeout |-> timeout, wait |-> wait, modelID |-> modelID]

\* Run returned a tool error before it turned to the directory.
Rejected(msg) ==
    [ok |-> FALSE, out |-> ErrorfToolOut(msg), slug |-> <<>>, prompt |-> <<>>,
     timeout |-> 0, wait |-> FALSE, modelID |-> <<>>]

\* Run from json.Unmarshal to the model selection.
RunPrefix(parentModel, models, raw) ==
    LET req == Decode(raw)
        invalid == ValidateFields(req)
        sel == SelectModel(parentModel, models, req.Model)
    IN  IF req.err
        THEN Rejected(<<"failed to parse subagent input", ": ">> \o JSONError)
        ELSE IF invalid # <<>> THEN Rejected(invalid)
        ELSE IF ~sel.ok THEN Rejected(sel.err)
        ELSE Resolved(sanitizeSlug(req.Slug), req.Prompt,
                      ResolveTimeout(req.TimeoutSeconds),
                      ResolveWait(req.Wait), sel.modelID)

-----------------------------------------------------------------------------
(* The directory: mockSubagentDB, the SubagentDB of the repository's tests. *)

\* key := parentID + ":" + slug
DBKey(parentID, slug) == parentID \o <<":">> \o slug

\* What a directory call returns, and the map it leaves.
DBAnswer(convs, conversationID, actualSlug, err) ==
    [conversations |-> convs, conversationID |-> conversationID,
     actualSlug |-> actualSlug, err |-> err]

\* The variant of GetOrCreateSubagentConversation that does not store the
\* conversation it creates.
GetOrCreateNoStore(convs, slug, parentID, cwd) ==
    LET key == DBKey(parentID, slug)
    IN  IF key \in DOMAIN convs
        THEN DBAnswer(convs, convs[key], slug, <<>>)
        ELSE DBAnswer(convs, <<"subagent-">> \o slug, slug, <<>>)

\* mockSubagentDB.GetOrCreateSubagentConversation.
GetOrCreateSubagentConversation(convs, slug, parentID, cwd) ==
    LET key == DBKey(parentID, slug)
    IN  IF key \in DOMAIN convs
        THEN DBAnswer(convs, convs[key], slug, <<>>)
        ELSE LET id == <<"subagent-">> \o slug
             IN  DBAnswer((key :> id) @@ convs, id, slug, <<>>)

-----------------------------------------------------------------------------
(* The reply Run composes from the Runner's response. *)

\* The variant of SlugNote that always writes the note.
SlugNoteAlways(actualSlug, reqSlug) ==
    <<" (Note: slug was changed to '">> \o actualSlug
        \o <<"' for uniqueness. Use '">> \o actualSlug
        \o <<"' for future messages to this subagent.)">>

\* slugNote: empty unless the directory changed the slug.
SlugNote(actualSlug, reqSlug) ==
    IF actualSlug # reqSlug
    THEN <<" (Note: slug was changed to '">> \o actualSlug
             \o <<"' for uniqueness. Use '">> \o actualSlug
             \o <<"' for future messages to this subagent.)">>
    ELSE <<>>

\* A variant of ComposeReply: the reply carries no Display.
ComposeReplyNoDisplay(actualSlug, reqSlug, conversationID, response) ==
    [isErr |-> FALSE, Error |-> <<>>,
     hasContent |-> TRUE,
     LLMContent |-> <<"Subagent '">> \o actualSlug \o <<"' response:">>
                        \o SlugNote(actualSlug, reqSlug) \o <<"\n">> \o response,
     hasDisplay |-> FALSE,
     Display |-> NoDisplay]

\* A variant of ComposeReply: an empty response is returned as a tool error.
ComposeReplyEmptyIsError(actualSlug, reqSlug, conversationID, response) ==
    IF response = <<>> THEN ErrorfToolOut(<<"subagent error: ">>)
    ELSE [isErr |-> FALSE, Error |-> <<>>,
          hasContent |-> TRUE,
          LLMContent |-> <<"Subagent '">> \o actualSlug \o <<"' response:">>
                             \o SlugNote(actualSlug, reqSlug) \o <<"\n">>
                             \o response,
          hasDisplay |-> TRUE,
          Display |-> [slug |-> actualSlug, conversation_id |-> conversationID]]

\* The llm.ToolOut of a call whose Runner returned response.
ComposeReply(actualSlug, reqSlug, conversationID, response) ==
    [isErr |-> FALSE, Error |-> <<>>,
     hasContent |-> TRUE,
     LLMContent |-> <<"Subagent '">> \o actualSlug \o <<"' response:">>
                        \o SlugNote(actualSlug, reqSlug) \o <<"\n">> \o response,
     hasDisplay |-> TRUE,
     Display |-> [slug |-> actualSlug, conversation_id |-> conversationID]]

-----------------------------------------------------------------------------
(* The inputs the model draws from. *)

\* The runes of the strings handed to sanitizeSlug: a lower-case letter, an
\* upper-case letter, a digit, the three runes that give '-', a dropped rune.
SlugAlphabet == {"a", "B", "7", "-", " ", "_", "@"}

\* The inputs of TestSubagentTool_SanitizeSlug and of the tests' invalid slug,
\* and two strings with a non-ASCII upper-case rune.
TableInputs ==
    { <<"t","e","s","t","-","s","l","u","g">>,
      <<"T","e","s","t"," ","S","l","u","g">>,
      <<"t","e","s","t","_","s","l","u","g">>,
      <<"t","e","s","t","-","-","s","l","u","g">>,
      <<"-","t","e","s","t","-","s","l","u","g","-">>,
      <<"t","e","s","t","@","s","l","u","g","!">>,
      <<"1","2","3","-","a","b","c">>,
      <<>>,
      <<"@","#","$","%">>,
      <<KELVIN>>,
      <<"-", KELVIN, "_", "_", "Z">> }

SanInputs == UNION {[1..n -> SlugAlphabet] : n \in 0..MaxLen} \cup TableInputs

P1 == <<"parent-1">>
P2 == <<"parent-2">>
Parents == {P1, P2}

Dirs == {<<"/tmp">>, <<"/src">>}

Model(id, displayName) == [ID |-> id, DisplayName |-> displayName]

\* The registries a tool is built with: none, two models of which one has a
\* display name, one model whose display name is its id.
Registries ==
    { <<>>,
      <<Model(<<"s">>, <<>>), Model(<<"h">>, <<"H">>)>>,
      <<Model(<<"h">>, <<"h">>)>> }

\* The model each parent conversation runs on: one of the registry's, and
\* one that no registry lists.
ParentModel == (P1 :> <<"s">>) @@ (P2 :> <<"o">>)

SlugValues ==
    {JStr(<<>>), JStr(<<"@">>), JStr(<<"a">>), JStr(<<"A", " ", "b">>),
     JStr(<<"_", "a", "-">>)}
PromptValues == {JStr(<<>>), JStr(<<"p">>)}
ModelValues == {JAbsent, JStr(<<"s">>), JStr(<<"h">>), JStr(<<"x", "\"">>)}
TimeoutValues ==
    {JAbsent, JNull, JNum(-1), JNum(0), JNum(1), JNum(300), JNum(301),
     JNum(9999)}
WaitValues == {JAbsent, JNull, JBool(TRUE), JBool(FALSE)}

\* The payloads of the calls: undecodable ones, every combination of slug,
\* prompt and model, and the timeouts and wait flags on a valid request.
RawInputs ==
    {Malformed,
     Obj(JNum(1), JStr(<<"p">>), JAbsent, JAbsent, JAbsent),
     Obj(JStr(<<"a">>), JStr(<<"p">>), JStr(<<"1">>), JAbsent, JAbsent),
     Obj(JStr(<<"a">>), JStr(<<"p">>), JAbsent, JNum(1), JAbsent),
     Obj(JAbsent, JStr(<<"p">>), JAbsent, JAbsent, JAbsent),
     Obj(JStr(<<"a">>), JAbsent, JAbsent, JAbsent, JAbsent),
     Obj(JAbsent, JAbsent, JAbsent, JAbsent, JAbsent),
     Obj(JStr(<<"a">>), JStr(<<"p">>), JAbsent, JAbsent, JStr(<<>>))}
    \cup {Obj(s, p, JAbsent, JAbsent, m) :
            s \in SlugValues, p \in PromptValues, m \in ModelValues}
    \cup {Obj(JStr(<<"a">>), JStr(<<"p">>), t, JAbsent, JAbsent) :
            t \in TimeoutValues}
    \cup {Obj(JStr(<<"a">>), JStr(<<"p">>), t, w, JStr(<<"h">>)) :
            t \in {JAbsent, JNum(301)}, w \in WaitValues}

\* What the Runner returns: a response (it may be empty) or an error.
Responses == {<<>>, <<"o", "k">>}
RunnerErrors == {<<"context canceled">>, <<"child failed">>}

-----------------------------------------------------------------------------
(* The state. *)

NoDBArgs == [slug |-> <<>>, parentID |-> <<>>, cwd |-> <<>>]

\* A context.Context: whose cancellation cancels it, whether Run derived it,
\* and its deadline in seconds from the call, if it has one.
NoContext ==
    [owner |-> <<>>, derived |-> FALSE, hasDeadline |-> FALSE, deadline |-> 0]

\* The ctx the agent loop of parent p calls Run with: cancelled when the
\* parent's conversation is, without a deadline.
CallerContext(p) == [NoContext EXCEPT !.owner = p]

\* A variant of RunSubagentContext: context.WithTimeout(ctx, timeout).
RunSubagentContextWithTimeout(ctx, timeout) ==
    [ctx EXCEPT !.derived = TRUE, !.hasDeadline = TRUE, !.deadline = timeout]

\* The context Run hands to s.Runner.RunSubagent: its own ctx.
RunSubagentContext(ctx, timeout) == ctx

NoRunnerArgs ==
    [ctx |-> NoContext, conversationID |-> <<>>, prompt |-> <<>>,
     wait |-> FALSE, timeout |-> 0, modelID |-> <<>>]

\* No call yet.  existed is history: whether the directory held the key when
\* Run called it.
Idle ==
    [pc |-> "idle", parent |-> P1, raw |-> Malformed,
     dbCalled |-> FALSE, dbArgs |-> NoDBArgs,
     conversationID |-> <<>>, actualSlug |-> <<>>,
     existed |-> FALSE,
     runnerCalled |-> FALSE, runnerArgs |-> NoRunnerArgs,
     response |-> <<>>,
     out |-> NoOut]

\* A tool per parent, built as the tests build one, over an empty directory.
InitTools ==
    /\ ModelID = ParentModel
    /\ AvailableModels \in Registries
    /\ WorkingDir = [p \in Parents |-> <<"/tmp">>]
    /\ conversations = <<>>
    /\ call = Idle
    /\ firstReturned = <<>>

\* The variables of the other specifications, at rest.
InitExt ==
    /\ tool = <<>>
    /\ web = <<>>
    /\ directory = <<>>
    /\ requests = <<>>
    /\ children = <<>>
    /\ runner = <<>>

Init ==
    /\ InitTools
    /\ InitExt
    /\ slugIn = <<>>
    /\ slugOut = <<>>
    /\ sanPc = "off"

-----------------------------------------------------------------------------
(* Run. *)

\* A variant of Reject: a conversation is bound before the error is returned.
RejectAfterBinding(p, raw, pre) ==
    /\ call' = [Idle EXCEPT !.pc = "returned", !.parent = p, !.raw = raw,
                            !.out = pre.out]
    /\ conversations' =
           (DBKey(p, <<"x">>) :> <<"subagent-", "x">>) @@ conversations

\* Run returns the tool error of its decoding, validation or model selection.
Reject(p, raw, pre) ==
    /\ call' = [Idle EXCEPT !.pc = "returned", !.parent = p, !.raw = raw,
                            !.out = pre.out]
    /\ UNCHANGED conversations

\* A variant of DirectoryErrorOut: the directory's error is not reported.
DirectoryErrorOutOpaque(err) ==
    ErrorfToolOut(<<"failed to get/create subagent conversation">>)

\* llm.ErrorfToolOut("failed to get/create subagent conversation: %w", err)
DirectoryErrorOut(err) ==
    ErrorfToolOut(<<"failed to get/create subagent conversation: ">> \o err)

\* A variant of Dispatch: the Runner is called whatever the directory
\* answered.
DispatchRunsOnError(p, raw, pre, db) ==
    LET args == [slug |-> pre.slug, parentID |-> p, cwd |-> WorkingDir[p]]
        key == DBKey(p, pre.slug)
        called == [Idle EXCEPT !.parent = p, !.raw = raw,
                               !.dbCalled = TRUE, !.dbArgs = args,
                               !.existed = (key \in DOMAIN conversations)]
    IN  /\ conversations' = db.conversations
        /\ IF FALSE
           THEN call' = [called EXCEPT
                    !.pc = "returned",
                    !.out = DirectoryErrorOut(db.err)]
           ELSE call' = [called EXCEPT
                    !.pc = "running",
                    !.conversationID = db.conversationID,
                    !.actualSlug = db.actualSlug,
                    !.runnerCalled = TRUE,
                    !.runnerArgs =
                        [ctx |-> RunSubagentContext(CallerContext(p),
                                                    pre.timeout),
                         conversationID |-> db.conversationID,
                         prompt |-> pre.prompt, wait |-> pre.wait,
                         timeout |-> pre.timeout, modelID |-> pre.modelID]]

\* Run calls the directory, and with its answer db either returns its error
\* or calls the Runner, which blocks.
Dispatch(p, raw, pre, db) ==
    LET args == [slug |-> pre.slug, parentID |-> p, cwd |-> WorkingDir[p]]
        key == DBKey(p, pre.slug)
        called == [Idle EXCEPT !.parent = p, !.raw = raw,
                               !.dbCalled = TRUE, !.dbArgs = args,
                               !.existed = (key \in DOMAIN conversations)]
    IN  /\ conversations' = db.conversations
        /\ IF db.err # <<>>
           THEN call' = [called EXCEPT
                    !.pc = "returned",
                    !.out = DirectoryErrorOut(db.err)]
           ELSE call' = [called EXCEPT
                    !.pc = "running",
                    !.conversationID = db.conversationID,
                    !.actualSlug = db.actualSlug,
                    !.runnerCalled = TRUE,
                    !.runnerArgs =
                        [ctx |-> RunSubagentContext(CallerContext(p),
                                                    pre.timeout),
                         conversationID |-> db.conversationID,
                         prompt |-> pre.prompt, wait |-> pre.wait,
                         timeout |-> pre.timeout, modelID |-> pre.modelID]]

\* SubagentTool.Run of the tool of parent p on payload raw, over the mock
\* directory, up to its return or to the call of the Runner.
Run(p, raw) ==
    /\ call.pc = "idle"
    /\ LET pre == RunPrefix(ModelID[p], AvailableModels, raw)
           key == DBKey(p, pre.slug)
           db == GetOrCreateSubagentConversation(
                     conversations, pre.slug, p, WorkingDir[p])
       IN  IF pre.ok
           THEN /\ Dispatch(p, raw, pre, db)
                /\ firstReturned' =
                       IF key \in DOMAIN firstReturned THEN firstReturned
                       ELSE (key :> db.conversationID) @@ firstReturned
           ELSE /\ Reject(p, raw, pre)
                /\ UNCHANGED firstReturned
    /\ UNCHANGED <<slugIn, slugOut, sanPc, ModelID, AvailableModels, WorkingDir>>
    /\ UNCHANGED extVars

\* The Runner returns a response and Run composes the reply.
RunSubagentReturns(response) ==
    /\ call.pc = "running"
    /\ call' = [call EXCEPT
           !.pc = "returned",
           !.response = response,
           !.out = ComposeReply(call.actualSlug, call.dbArgs.slug,
                                call.conversationID, response)]
    /\ UNCHANGED <<slugIn, slugOut, sanPc, ModelID, AvailableModels, WorkingDir,
                   conversations, firstReturned>>
    /\ UNCHANGED extVars

\* The Runner returns an error and Run wraps it.
RunSubagentFails(err) ==
    /\ call.pc = "running"
    /\ call' = [call EXCEPT
           !.pc = "returned",
           !.out = ErrorfToolOut(<<"subagent error: ">> \o err)]
    /\ UNCHANGED <<slugIn, slugOut, sanPc, ModelID, AvailableModels, WorkingDir,
                   conversations, firstReturned>>
    /\ UNCHANGED extVars

\* The parent's agent loop takes the tool output of the call that returned;
\* its next tool call may start.
TakeOutput ==
    /\ call.pc = "returned"
    /\ call' = Idle
    /\ UNCHANGED <<slugIn, slugOut, sanPc, ModelID, AvailableModels, WorkingDir,
                   conversations, firstReturned>>
    /\ UNCHANGED extVars

\* Another tool of parent p changes its working directory; the parent's tool
\* calls run one at a time, so not while its subagent call is in flight.
Cd(p, dir) ==
    /\ ~(call.pc = "running" /\ call.parent = p)
    /\ dir # WorkingDir[p]
    /\ WorkingDir' = [WorkingDir EXCEPT ![p] = dir]
    /\ UNCHANGED <<slugIn, slugOut, sanPc, ModelID, AvailableModels,
                   conversations, call, firstReturned>>
    /\ UNCHANGED extVars

Next ==
    \/ \E p \in Parents, raw \in RawInputs : Run(p, raw)
    \/ \E response \in Responses : RunSubagentReturns(response)
    \/ \E err \in RunnerErrors : RunSubagentFails(err)
    \/ TakeOutput
    \/ \E p \in Parents, dir \in Dirs : Cd(p, dir)

Spec == Init /\ [][Next]_vars

-----------------------------------------------------------------------------
(* Run over any directory that implements SubagentDB. *)

ChildIDs == {<<"c1">>, <<"c2">>}
DBErrors == {<<"database is locked">>}

\* What an implementation of SubagentDB may return for slug: an error, or a
\* conversation id with the slug, or with the slug and a numeric suffix.
DirectoryAnswers(slug) ==
    {DBAnswer(conversations, id, actual, <<>>) :
        id \in ChildIDs, actual \in {slug, slug \o <<"-", "2">>}}
    \cup {DBAnswer(conversations, <<>>, <<>>, err) : err \in DBErrors}

\* SubagentTool.Run of the tool of parent p on payload raw, up to its return
\* or to the call of the Runner, the directory being any SubagentDB.
RunAny(p, raw) ==
    /\ call.pc = "idle"
    /\ LET pre == RunPrefix(ModelID[p], AvailableModels, raw)
       IN  IF pre.ok
           THEN \E db \in DirectoryAnswers(pre.slug) : Dispatch(p, raw, pre, db)
           ELSE Reject(p, raw, pre)
    /\ UNCHANGED <<slugIn, slugOut, sanPc, ModelID, AvailableModels, WorkingDir,
                   firstReturned>>
    /\ UNCHANGED extVars

NextAny ==
    \/ \E p \in Parents, raw \in RawInputs : RunAny(p, raw)
    \/ \E response \in Responses : RunSubagentReturns(response)
    \/ \E err \in RunnerErrors : RunSubagentFails(err)
    \/ TakeOutput
    \/ \E p \in Parents, dir \in Dirs : Cd(p, dir)

SpecAny == Init /\ [][NextAny]_vars

-----------------------------------------------------------------------------
(* sanitizeSlug alone, on every string of SanInputs. *)

InitSan ==
    /\ slugIn \in SanInputs
    /\ slugOut = <<>>
    /\ sanPc = "in"
    /\ ModelID = ParentModel
    /\ AvailableModels = <<>>
    /\ WorkingDir = [p \in Parents |-> <<"/tmp">>]
    /\ conversations = <<>>
    /\ call = Idle
    /\ firstReturned = <<>>
    /\ InitExt

\* sanitizeSlug(slugIn)
Sanitize ==
    /\ sanPc = "in"
    /\ slugOut' = <<sanitizeSlug(slugIn)>>
    /\ sanPc' = "out"
    /\ UNCHANGED <<slugIn, ModelID, AvailableModels, WorkingDir, conversations,
                   call, firstReturned>>
    /\ UNCHANGED extVars

\* sanitizeSlug of the slug that sanitizeSlug returned.
SanitizeAgain ==
    /\ sanPc = "out"
    /\ slugOut' = Append(slugOut, sanitizeSlug(slugOut[1]))
    /\ sanPc' = "again"
    /\ UNCHANGED <<slugIn, ModelID, AvailableModels, WorkingDir, conversations,
                   call, firstReturned>>
    /\ UNCHANGED extVars

NextSan == Sanitize \/ SanitizeAgain

SpecSan == InitSan /\ [][NextSan]_vars

-----------------------------------------------------------------------------
(* The slug sanitizer: properties checked under SpecSan. *)

SlugChars == Range(LowerLetters) \cup Digits \cup {"-"}

\* s as the subsequence of its positions in keep.
RECURSIVE Pick(_, _, _)
Pick(s, keep, i) ==
    IF i > Len(s) THEN <<>>
    ELSE (IF i \in keep THEN <<s[i]>> ELSE <<>>) \o Pick(s, keep, i + 1)

\* The reference pipeline, stage by stage over the whole string.
RefMap(s) == [i \in 1..Len(s) |-> IF s[i] \in {" ", "_"} THEN "-" ELSE s[i]]
RefDrop(s) == Pick(s, {i \in 1..Len(s) : s[i] \in SlugChars}, 1)
RefCollapse(s) ==
    Pick(s, {i \in 1..Len(s) : s[i] # "-" \/ i = 1 \/ s[i - 1] # "-"}, 1)
RefTrim(s) ==
    LET solid == {i \in 1..Len(s) : s[i] # "-"}
    IN  IF solid = {} THEN <<>>
        ELSE SubSeq(s, CHOOSE i \in solid : \A j \in solid : i <= j,
                       CHOOSE i \in solid : \A j \in solid : j <= i)
RefSanitize(s) == RefTrim(RefCollapse(RefDrop(RefMap(ToLower(s)))))

\* The rows of the sanitization table: input, expected slug.
SanitizeTable ==
    { << <<"T","e","s","t"," ","S","l","u","g">>,
         <<"t","e","s","t","-","s","l","u","g">> >>,
      << <<"t","e","s","t","_","s","l","u","g">>,
         <<"t","e","s","t","-","s","l","u","g">> >>,
      << <<"t","e","s","t","-","-","s","l","u","g">>,
         <<"t","e","s","t","-","s","l","u","g">> >>,
      << <<"-","t","e","s","t","-","s","l","u","g","-">>,
         <<"t","e","s","t","-","s","l","u","g">> >>,
      << <<"t","e","s","t","@","s","l","u","g","!">>,
         <<"t","e","s","t","s","l","u","g">> >>,
      << <<"1","2","3","-","a","b","c">>, <<"1","2","3","-","a","b","c">> >>,
      << <<>>, <<>> >>,
      << <<"@","#","$","%">>, <<>> >> }

\* C1: slug normalization is idempotent: sanitizeSlug applied to a slug that
\* sanitizeSlug returned gives that slug back, for every input string.
C1_Idempotent == sanPc = "again" => slugOut[2] = slugOut[1]

\* C1 witness: a second sanitization of a non-empty slug that the first one
\* had to change.
C1_Witness ==
    /\ sanPc = "again"
    /\ slugIn = <<"_", "B", "-", " ", "7">>
    /\ slugOut[1] = <<"b", "-", "7">>
    /\ slugOut[2] = <<"b", "-", "7">>

\* C2: for every input, the slug sanitizeSlug returns holds only runes of
\* [a-z0-9-], neither begins nor ends with '-', and has no "--"; it may be
\* empty.
C2_CleanSlug ==
    sanPc \in {"out", "again"} =>
        LET s == slugOut[1]
        IN  /\ \A i \in 1..Len(s) : s[i] \in SlugChars
            /\ s # <<>> => (s[1] # "-" /\ s[Len(s)] # "-")
            /\ \A i \in 1..(Len(s) - 1) : ~(s[i] = "-" /\ s[i + 1] = "-")

\* C2 witness: an input with a dropped rune, hyphens at both ends and a run
\* of hyphens inside, sanitized to a non-empty slug.
C2_Witness ==
    /\ sanPc = "out"
    /\ slugIn = <<"-", "a", "@", "_", "-">>
    /\ slugOut[1] = <<"a">>

\* C3: for every input, sanitizeSlug returns what the reference pipeline
\* returns (lowercase; ' ' and '_' to '-'; drop what is outside [a-z0-9-];
\* collapse each run of '-'; trim '-' at both ends), and the rows of the
\* sanitization table come out as listed.
C3_Reference ==
    sanPc \in {"out", "again"} =>
        /\ slugOut[1] = RefSanitize(slugIn)
        /\ \A row \in SanitizeTable : slugIn = row[1] => slugOut[1] = row[2]

\* C3 witness: "Test Slug" sanitized to "test-slug".
C3_Witness ==
    /\ sanPc = "out"
    /\ slugIn = <<"T","e","s","t"," ","S","l","u","g">>
    /\ slugOut[1] = <<"t","e","s","t","-","s","l","u","g">>

-----------------------------------------------------------------------------
(* Run: properties of the call in flight or returned, checked under Spec. *)

\* json.Unmarshal fails on the payload: it is no JSON, or a member has a
\* JSON type that its field does not take.
Undecodable(raw) ==
    \/ ~raw.ok
    \/ raw.slug.t \in {"number", "bool"}
    \/ raw.prompt.t \in {"number", "bool"}
    \/ raw.timeout_seconds.t \in {"string", "bool"}
    \/ raw.wait.t \in {"string", "number"}
    \/ raw.model.t \in {"number", "bool"}

\* The ids of the tool's registry.
RegistryIDs == {AvailableModels[i].ID : i \in 1..Len(AvailableModels)}

\* The payload decodes and has a slug that sanitizes to a slug, and a prompt.
FieldsValid(raw) ==
    /\ ~Undecodable(raw)
    /\ sanitizeSlug(raw.slug.s) # <<>>
    /\ raw.prompt.s # <<>>

\* The payload names a model that the non-empty registry does not list.
NamesUnknownModel(raw) ==
    /\ raw.ok
    /\ raw.model.t = "string"
    /\ raw.model.s # <<>>
    /\ Len(AvailableModels) > 0
    /\ raw.model.s \notin RegistryIDs

\* The call returned a tool error and nothing else, and reached neither the
\* directory nor the Runner.
RejectedCall ==
    /\ call.pc = "returned"
    /\ call.out.isErr
    /\ ~call.out.hasContent
    /\ ~call.out.hasDisplay
    /\ ~call.dbCalled
    /\ ~call.runnerCalled

\* sub occurs in msg.
Contains(msg, sub) ==
    \E i \in 0..(Len(msg) - Len(sub)) : SubSeq(msg, i + 1, i + Len(sub)) = sub

\* The strings of subs occur in msg one after the other, in their order.
InOrder(msg, subs) ==
    \E f \in [1..Len(subs) -> 1..Len(msg)] :
        /\ \A k \in 1..Len(subs) :
               SubSeq(msg, f[k], f[k] + Len(subs[k]) - 1) = subs[k]
        /\ \A k \in 1..(Len(subs) - 1) : f[k] + Len(subs[k]) <= f[k + 1]

\* C4 as stated, a request with several defects getting the message of the
\* first in the claim's order: an undecodable payload is rejected with "failed
\* to parse subagent input"; else an empty or missing slug with "slug is
\* required"; else an empty or missing prompt with "prompt is required"; else
\* a slug that sanitizes to "" with "slug must contain alphanumeric
\* characters".
C4_AsStated ==
    call.pc # "idle" =>
        LET raw == call.raw
            e == call.out.Error
        IN  /\ Undecodable(raw) =>
                (RejectedCall /\ Head(e) = "failed to parse subagent input")
            /\ (~Undecodable(raw) /\ raw.slug.s = <<>>) =>
                (RejectedCall /\ e = <<"slug is required">>)
            /\ (~Undecodable(raw) /\ raw.slug.s # <<>>
                    /\ raw.prompt.s = <<>>) =>
                (RejectedCall /\ e = <<"prompt is required">>)
            /\ (~Undecodable(raw) /\ raw.slug.s # <<>>
                    /\ raw.prompt.s # <<>>
                    /\ sanitizeSlug(raw.slug.s) = <<>>) =>
                (RejectedCall
                    /\ e = <<"slug must contain alphanumeric characters">>)

\* C4 as amended: an undecodable payload is rejected with "failed to parse
\* subagent input"; else an empty or missing slug with "slug is required";
\* else a slug that sanitizes to "" with "slug must contain alphanumeric
\* characters", whatever the prompt; else an empty or missing prompt with
\* "prompt is required".
C4_Rejections ==
    call.pc # "idle" =>
        LET raw == call.raw
            e == call.out.Error
        IN  /\ Undecodable(raw) =>
                (RejectedCall /\ Head(e) = "failed to parse subagent input")
            /\ (~Undecodable(raw) /\ raw.slug.s = <<>>) =>
                (RejectedCall /\ e = <<"slug is required">>)
            /\ (~Undecodable(raw) /\ raw.prompt.s = <<>>
                    /\ sanitizeSlug(raw.slug.s) # <<>>) =>
                (RejectedCall /\ e = <<"prompt is required">>)
            /\ (~Undecodable(raw) /\ raw.slug.s # <<>>
                    /\ sanitizeSlug(raw.slug.s) = <<>>) =>
                (RejectedCall
                    /\ e = <<"slug must contain alphanumeric characters">>)

\* C4 witness: a request with a slug of dropped runes only and no prompt,
\* rejected for its slug.
C4_Witness ==
    /\ call.pc = "returned"
    /\ call.raw.slug.s = <<"@">>
    /\ call.raw.prompt.s = <<>>
    /\ call.out.isErr
    /\ call.out.Error = <<"slug must contain alphanumeric characters">>

\* C5: the timeout handed to the Runner is 60 s when timeout_seconds is
\* absent or <= 0, timeout_seconds when it is in 1..300, and 300 s when it is
\* larger; a request with a larger one is accepted; the timeout of every
\* request that reaches the Runner is within 1 s and 300 s.
C5_Timeout ==
    LET raw == call.raw
        ts == raw.timeout_seconds
        timeout == call.runnerArgs.timeout
    IN  /\ call.runnerCalled =>
            /\ (ts.t # "number" \/ ts.n <= 0) => timeout = 60
            /\ (ts.t = "number" /\ 1 <= ts.n /\ ts.n <= 300) => timeout = ts.n
            /\ (ts.t = "number" /\ ts.n > 300) => timeout = 300
            /\ 1 <= timeout /\ timeout <= 300
        /\ (/\ call.pc # "idle"
            /\ FieldsValid(raw)
            /\ ~NamesUnknownModel(raw)
            /\ ts.t = "number" /\ ts.n > 300) => call.runnerCalled

\* C5 witness: timeout_seconds 9999 reached the Runner as 300 s.
C5_Witness ==
    /\ call.runnerCalled
    /\ call.raw.timeout_seconds = JNum(9999)
    /\ call.runnerArgs.timeout = 300

\* C6: the wait flag handed to the Runner is true when the request has no
\* wait, and the request's wait when it has one.
C6_Wait ==
    call.runnerCalled =>
        call.runnerArgs.wait =
            (IF call.raw.wait.t = "bool" THEN call.raw.wait.b ELSE TRUE)

\* C6 witness: a request with wait false reached the Runner with wait false.
C6_Witness ==
    /\ call.runnerCalled
    /\ call.raw.wait = JBool(FALSE)
    /\ call.runnerArgs.wait = FALSE

\* C7: the model id handed to the Runner is the request's model when that is
\* non-empty (a registry id when the registry is not empty), and the ModelID
\* of the parent's tool otherwise; no step changes a tool's ModelID.
C7_Model ==
    /\ [](call.runnerCalled =>
            /\ call.runnerArgs.modelID =
                   (IF call.raw.model.s # <<>> THEN call.raw.model.s
                    ELSE ModelID[call.parent])
            /\ (call.raw.model.s # <<>> /\ Len(AvailableModels) > 0) =>
                   call.raw.model.s \in RegistryIDs)
    /\ [][ModelID' = ModelID]_vars

\* C7 witness: a request for a registry model other than the parent's reached
\* the Runner with that model.
C7_Witness ==
    /\ call.runnerCalled
    /\ call.raw.model.s = <<"h">>
    /\ ModelID[call.parent] = <<"s">>
    /\ Len(AvailableModels) > 0
    /\ call.runnerArgs.modelID = <<"h">>

-----------------------------------------------------------------------------
(* The reply, checked under SpecAny; the mock directory, under Spec. *)

\* C9: the LLM text of every successful call is "Subagent '<actual_slug>'
\* response:", then the slug-change note if and only if the actual slug the
\* directory returned differs from the sanitized requested slug, then a
\* newline and the Runner's text unchanged; Display is the actual slug and
\* the conversation id the directory returned.
C9_Reply ==
    (call.pc = "returned" /\ ~call.out.isErr) =>
        LET requested == sanitizeSlug(call.raw.slug.s)
            actual == call.actualSlug
            note == <<" (Note: slug was changed to '">> \o actual
                        \o <<"' for uniqueness. Use '">> \o actual
                        \o <<"' for future messages to this subagent.)">>
        IN  /\ call.runnerCalled
            /\ call.out.hasContent
            /\ call.out.LLMContent =
                   <<"Subagent '">> \o actual \o <<"' response:">>
                       \o (IF actual # requested THEN note ELSE <<>>)
                       \o <<"\n">> \o call.response
            /\ call.out.hasDisplay
            /\ call.out.Display =
                   [slug |-> actual, conversation_id |-> call.conversationID]

\* C9 witness: a successful call whose directory changed the slug "a" to
\* "a-2", its reply carrying the note.
C9_Witness ==
    /\ call.pc = "returned"
    /\ ~call.out.isErr
    /\ call.raw.slug.s = <<"_", "a", "-">>
    /\ call.actualSlug = <<"a", "-", "2">>
    /\ call.conversationID = <<"c2">>
    /\ call.out.LLMContent =
           <<"Subagent '", "a", "-", "2", "' response:",
             " (Note: slug was changed to '", "a", "-", "2",
             "' for uniqueness. Use '", "a", "-", "2",
             "' for future messages to this subagent.)",
             "\n", "o", "k">>
    /\ call.out.Display =
           [slug |-> <<"a", "-", "2">>, conversation_id |-> <<"c2">>]

\* C10: every call of the mock directory for a (parent, slug) returns the
\* conversation id that its first call for that pair returned, with the
\* requested slug as the actual slug; the first call binds the pair and no
\* later call creates another binding for it.
C10_SameChild ==
    /\ call.dbCalled =>
           LET requested == sanitizeSlug(call.raw.slug.s)
               key == DBKey(call.parent, requested)
           IN  /\ key \in DOMAIN firstReturned
               /\ call.conversationID = firstReturned[key]
               /\ call.actualSlug = requested
               /\ key \in DOMAIN conversations
               /\ conversations[key] = call.conversationID
    /\ DOMAIN conversations = DOMAIN firstReturned

\* C10 witness: a call for a (parent, slug) that an earlier call had bound,
\* returning the id of that binding.
C10_Witness ==
    /\ call.dbCalled
    /\ call.existed
    /\ call.parent = P2
    /\ call.raw.slug.s = <<"A", " ", "b">>
    /\ call.actualSlug = <<"a", "-", "b">>
    /\ call.conversationID = firstReturned[DBKey(P2, <<"a", "-", "b">>)]

-----------------------------------------------------------------------------
(* The tool descriptor: subagentDescription and subagentInputSchema. *)

MaxModels == 2

\* The preamble of the description, kept as one chunk.
DescriptionBase ==
    <<"Spawn or interact with a subagent conversation. [...] The tool returns the subagent's last response, or a status if the timeout is reached.">>

ModelsHeader ==
    <<"\n\nAvailable models (use the \"model\" parameter to override the default):">>

\* A variant of ModelLine: the display name is written whenever it is not
\* empty.
ModelLineAnyDisplayName(m) ==
    IF m.DisplayName # <<>>
    THEN <<"\n- ">> \o m.ID \o <<" (">> \o m.DisplayName \o <<")">>
    ELSE <<"\n- ">> \o m.ID

\* The line of one model: "\n- %s (%s)" or "\n- %s".
ModelLine(m) ==
    IF m.DisplayName # <<>> /\ m.DisplayName # m.ID
    THEN <<"\n- ">> \o m.ID \o <<" (">> \o m.DisplayName \o <<")">>
    ELSE <<"\n- ">> \o m.ID

RECURSIVE ModelLines(_)
\* The loop over s.AvailableModels that appends a line per model.
ModelLines(models) ==
    IF models = <<>> THEN <<>>
    ELSE ModelLine(Head(models)) \o ModelLines(Tail(models))

\* A variant of subagentDescription: the section is written for every registry.
subagentDescriptionAlwaysSection(models) ==
    DescriptionBase \o ModelsHeader \o ModelLines(models)

subagentDescription(models) ==
    IF Len(models) > 0
    THEN DescriptionBase \o ModelsHeader \o ModelLines(models)
    ELSE DescriptionBase

\* The literals of the schema's format strings, kept as chunks.
SchemaHead ==
    <<"{ \"type\": \"object\", \"required\": [\"slug\", \"prompt\"], \"properties\": { \"slug\": {...}, \"prompt\": {...}, \"timeout_seconds\": {...}, \"wait\": {...}">>
SchemaTail == <<"\n  }\n}">>
ModelPropHead ==
    <<",\n    \"model\": { \"type\": \"string\", \"description\": \"LLM model for the subagent. Defaults to the parent conversation's model.\", \"enum\": [">>
ModelPropTail == <<"]\n    }">>

\* enumItems: each id as %q writes it.
EnumItems(models) == [i \in 1..Len(models) |-> Quote(models[i].ID)]

ModelProp(models) ==
    IF Len(models) > 0
    THEN ModelPropHead \o Join(EnumItems(models), <<",", " ">>) \o ModelPropTail
    ELSE <<>>

subagentInputSchema(models) == SchemaHead \o ModelProp(models) \o SchemaTail

subagentName == <<"subagent">>

NoTool ==
    [built |-> FALSE, Name |-> <<>>, Description |-> <<>>, InputSchema |-> <<>>]

\* The ids and display names the registries of SpecDesc are made of.
DescIDs == {<<"s">>, <<"h">>, <<"x", "\"">>}
DescModels ==
    {Model(id, dn) : id \in DescIDs, dn \in {<<>>, <<"h">>, <<"H", "i">>}}
DescRegistries == UNION {[1..n -> DescModels] : n \in 0..MaxModels}

InitDesc ==
    /\ ModelID = ParentModel
    /\ AvailableModels \in DescRegistries
    /\ WorkingDir = [p \in Parents |-> <<"/tmp">>]
    /\ conversations = <<>>
    /\ call = Idle
    /\ firstReturned = <<>>
    /\ slugIn = <<>>
    /\ slugOut = <<>>
    /\ sanPc = "off"
    /\ tool = NoTool
    /\ web = <<>>
    /\ directory = <<>>
    /\ requests = <<>>
    /\ children = <<>>
    /\ runner = <<>>

\* SubagentTool.Tool
Tool ==
    /\ ~tool.built
    /\ tool' = [built |-> TRUE,
                Name |-> subagentName,
                Description |-> subagentDescription(AvailableModels),
                InputSchema |-> subagentInputSchema(AvailableModels)]
    /\ UNCHANGED <<coreVars, web, directory, requests, children, runner>>

NextDesc == Tool

SpecDesc == InitDesc /\ [][NextDesc]_vars

-----------------------------------------------------------------------------
(* The tool descriptor: properties checked under SpecDesc. *)

HasModelsSection(desc) == \E i \in 1..Len(desc) : desc[i] = ModelsHeader[1]
HasModelProp(schema) == \E i \in 1..Len(schema) : schema[i] = ModelPropHead[1]

\* What follows the first occurrence of chunk in s, and what precedes it.
After(s, chunk) ==
    LET i == CHOOSE k \in 1..Len(s) :
                 s[k] = chunk /\ \A j \in 1..(k - 1) : s[j] # chunk
    IN  SubSeq(s, i + 1, Len(s))
Before(s, chunk) ==
    LET i == CHOOSE k \in 1..Len(s) :
                 s[k] = chunk /\ \A j \in 1..(k - 1) : s[j] # chunk
    IN  SubSeq(s, 1, i - 1)

RECURSIVE SplitAt(_, _, _, _)
\* The pieces of s between the occurrences of chunk sep; cur is the piece
\* being read and acc the pieces read.
SplitAt(s, sep, cur, acc) ==
    IF s = <<>> THEN Append(acc, cur)
    ELSE IF Head(s) = sep THEN SplitAt(Tail(s), sep, <<>>, Append(acc, cur))
    ELSE SplitAt(Tail(s), sep, Append(cur, Head(s)), acc)

\* The model lines of a description that has the section, without "\n- ".
DescriptionLines(desc) ==
    Tail(SplitAt(After(desc, ModelsHeader[1]), "\n- ", <<>>, <<>>))

RECURSIVE ParseStrings(_, _, _, _)
\* The strings of a JSON array body: s is what is left to read, inStr tells
\* whether a string is open, cur is its value so far, acc the strings read.
ParseStrings(s, inStr, cur, acc) ==
    IF s = <<>> THEN acc
    ELSE IF ~inStr
         THEN ParseStrings(Tail(s), Head(s) = "\"", <<>>, acc)
    ELSE IF Head(s) = "\\"
         THEN ParseStrings(Tail(Tail(s)), TRUE, Append(cur, s[2]), acc)
    ELSE IF Head(s) = "\""
         THEN ParseStrings(Tail(s), FALSE, <<>>, Append(acc, cur))
    ELSE ParseStrings(Tail(s), TRUE, Append(cur, Head(s)), acc)

\* The enum of the model property of a schema that has one, decoded.
SchemaEnum(schema) ==
    ParseStrings(Before(After(schema, ModelPropHead[1]), ModelPropTail[1]),
                 FALSE, <<>>, <<>>)

\* The line the claim gives for model m.
RenderedLine(m) ==
    IF m.DisplayName # <<>> /\ m.DisplayName # m.ID
    THEN m.ID \o <<" (">> \o m.DisplayName \o <<")">>
    ELSE m.ID

\* C17: for every registry, the schema Tool() builds has a model property
\* if and only if the description has an "Available models" section, if and
\* only if the registry is not empty.
C17_DescriptorConsistent ==
    tool.built =>
        /\ HasModelProp(tool.InputSchema) <=> HasModelsSection(tool.Description)
        /\ HasModelsSection(tool.Description) <=> (Len(AvailableModels) > 0)

\* C17 witness: a tool built from an empty registry, with neither the
\* property nor the section.
C17_Witness ==
    /\ tool.built
    /\ AvailableModels = <<>>
    /\ ~HasModelProp(tool.InputSchema)
    /\ ~HasModelsSection(tool.Description)

\* C18: for a non-empty registry the description has one line per model, in
\* registry order, "<id> (<display name>)" when the display name is non-empty
\* and differs from the id and "<id>" otherwise, and the enum of the schema's
\* model property is the sequence of the registry's ids.
C18_DescriptorContents ==
    (tool.built /\ Len(AvailableModels) > 0) =>
        /\ DescriptionLines(tool.Description) =
               [i \in 1..Len(AvailableModels) |-> RenderedLine(AvailableModels[i])]
        /\ SchemaEnum(tool.InputSchema) = ModelIDs(AvailableModels)

\* C18 witness: the registry [h named "h", x" named "Hi"]: the line "h"
\* without a suffix, the line with "Hi", the enum [h, x"].
C18_Witness ==
    /\ tool.built
    /\ AvailableModels =
           <<Model(<<"h">>, <<"h">>), Model(<<"x", "\"">>, <<"H", "i">>)>>
    /\ DescriptionLines(tool.Description) =
           << <<"h">>, <<"x", "\"", " (", "H", "i", ")">> >>
    /\ SchemaEnum(tool.InputSchema) = << <<"h">>, <<"x", "\"">> >>

-----------------------------------------------------------------------------
(* server/middleware.go: CSRFMiddleware and RequireHeaderMiddleware around a  *)
(* wrapped handler.  Paths, header names and header values are sequences of  *)
(* one-character strings.                                                     *)

MaxHeaders == 2

StatusOK == 200
StatusForbidden == 403

MethodGet == <<"G","E","T">>
MethodHead == <<"H","E","A","D">>
MethodPost == <<"P","O","S","T">>
MethodPut == <<"P","U","T">>
MethodPatch == <<"P","A","T","C","H">>
MethodDelete == <<"D","E","L","E","T","E">>

XShelleyRequest ==
    <<"X","-","S","h","e","l","l","e","y","-","R","e","q","u","e","s","t">>
XExedevUserid ==
    <<"X","-","E","x","e","d","e","v","-","U","s","e","r","i","d">>

IndexOf(seq, x) == CHOOSE i \in 1..Len(seq) : seq[i] = x

\* The ASCII case mappings of textproto's canonicalization.
UpperASCII(c) ==
    IF c \in Range(LowerLetters) THEN UpperLetters[IndexOf(LowerLetters, c)]
    ELSE c
LowerASCII(c) ==
    IF c \in Range(UpperLetters) THEN LowerLetters[IndexOf(UpperLetters, c)]
    ELSE c

\* The bytes a header field name may hold, among those the model writes.
TokenBytes == Range(LowerLetters) \cup Range(UpperLetters) \cup Digits \cup {"-"}

\* textproto.CanonicalMIMEHeaderKey, which Header.Get and the server's header
\* reader apply: the first letter and every letter after a hyphen in upper
\* case, the others in lower case; a name with another byte is left as it is.
CanonicalMIMEHeaderKey(s) ==
    IF \E i \in 1..Len(s) : s[i] \notin TokenBytes THEN s
    ELSE [i \in 1..Len(s) |->
            IF i = 1 \/ s[i - 1] = "-" THEN UpperASCII(s[i])
            ELSE LowerASCII(s[i])]

RECURSIVE ReadHeader(_, _)
\* r.Header as the server reads it from the header lines of the request:
\* canonical name -> the values in the order of the lines.
ReadHeader(lines, h) ==
    IF lines = <<>> THEN h
    ELSE LET k == CanonicalMIMEHeaderKey(Head(lines).name)
             vs == IF k \in DOMAIN h THEN h[k] ELSE <<>>
         IN  ReadHeader(Tail(lines),
                 (k :> Append(vs, Head(lines).value))
                     @@ [x \in DOMAIN h \ {k} |-> h[x]])

\* Header.Get: the first value under the canonical name, "" without one.
HeaderGet(h, name) ==
    LET k == CanonicalMIMEHeaderKey(name)
    IN  IF k \in DOMAIN h /\ Len(h[k]) > 0 THEN h[k][1] ELSE <<>>

\* strings.HasPrefix
HasPrefix(s, prefix) ==
    Len(s) >= Len(prefix) /\ SubSeq(s, 1, Len(prefix)) = prefix

ApiPrefix == <<"/","a","p","i","/">>

\* What the wrapped handler does with the response writer: the status it
\* writes (0 when it writes none and the first Write makes it 200) and the
\* body.
HandlerBehaviours ==
    {[status |-> 0, body |-> <<"ok">>],
     [status |-> StatusOK, body |-> <<>>],
     [status |-> StatusForbidden, body |-> <<"no">>]}

\* The response after http.Error(w, msg, code) on a fresh writer.
HttpError(w, msg, code) ==
    [w EXCEPT !.pc = "served", !.status = code, !.body = msg \o <<"\n">>,
              !.mwWrote = TRUE]

\* The response after next.ServeHTTP(w, r) with a handler that behaves as b.
NextServeHTTP(w, b) ==
    [w EXCEPT !.pc = "served",
              !.status = IF b.status = 0 THEN StatusOK ELSE b.status,
              !.body = b.body,
              !.handlerCalls = w.handlerCalls + 1]

\* A variant of StateChanging: DELETE is not checked.
StateChangingNoDelete(method) == method = MethodPost \/ method = MethodPut

\* The methods CSRFMiddleware checks.
StateChanging(method) ==
    method = MethodPost \/ method = MethodPut \/ method = MethodDelete

\* A variant of IsAPIRoute: the prefix is "/api", without the last slash.
IsAPIRouteNoSlash(path) == HasPrefix(path, <<"/","a","p","i">>)

\* The routes RequireHeaderMiddleware checks.
IsAPIRoute(path) == HasPrefix(path, ApiPrefix)

Methods ==
    {MethodGet, MethodHead, MethodPost, MethodPut, MethodPatch, MethodDelete,
     <<"p","o","s","t">>}

Paths ==
    {<<"/">>,
     <<"/","v","e","r","s","i","o","n">>,
     <<"/","a","p","i">>,
     <<"/","a","p","i","/">>,
     <<"/","a","p","i","/","c">>,
     <<"/","a","p","i","x">>,
     <<"/","A","P","I","/","c">>}

HeaderNames ==
    {XShelleyRequest, ToLower(XShelleyRequest), XExedevUserid,
     [i \in 1..Len(XExedevUserid) |-> UpperASCII(XExedevUserid[i])],
     <<"X","-","O">>}
HeaderValues == {<<>>, <<"1">>}
HeaderLines ==
    UNION {[1..n -> [name : HeaderNames, value : HeaderValues]] :
              n \in 0..MaxHeaders}

\* The middlewares the model serves a request through: CSRFMiddleware(), and
\* RequireHeaderMiddleware(headerName) under two spellings of the name.
Middlewares ==
    {[mw |-> "csrf", headerName |-> <<>>],
     [mw |-> "require", headerName |-> XExedevUserid],
     [mw |-> "require", headerName |-> ToLower(XExedevUserid)]}

NewRequest(m, method, path, lines) ==
    [pc |-> "received", mw |-> m.mw, headerName |-> m.headerName,
     Method |-> method, Path |-> path, lines |-> lines,
     Header |-> ReadHeader(lines, <<>>),
     handlerCalls |-> 0, status |-> 0, body |-> <<>>, mwWrote |-> FALSE]

InitWeb ==
    /\ \E m \in Middlewares, method \in Methods, path \in Paths,
          lines \in HeaderLines :
           web = NewRequest(m, method, path, lines)
    /\ ModelID = ParentModel
    /\ AvailableModels = <<>>
    /\ WorkingDir = [p \in Parents |-> <<"/tmp">>]
    /\ conversations = <<>>
    /\ call = Idle
    /\ firstReturned = <<>>
    /\ slugIn = <<>>
    /\ slugOut = <<>>
    /\ sanPc = "off"
    /\ tool = NoTool
    /\ directory = <<>>
    /\ requests = <<>>
    /\ children = <<>>
    /\ runner = <<>>

\* The handler CSRFMiddleware()(next) serves the request; next behaves as b.
CSRFServeHTTP(b) ==
    /\ web.pc = "received"
    /\ web.mw = "csrf"
    /\ web' =
        IF StateChanging(web.Method)
              /\ HeaderGet(web.Header, XShelleyRequest) = <<>>
        THEN HttpError(web,
                 <<"CSRF protection: X-Shelley-Request header required">>,
                 StatusForbidden)
        ELSE NextServeHTTP(web, b)
    /\ UNCHANGED <<coreVars, tool, directory, requests, children, runner>>

\* The handler RequireHeaderMiddleware(headerName)(next) serves the request.
RequireHeaderServeHTTP(b) ==
    /\ web.pc = "received"
    /\ web.mw = "require"
    /\ web' =
        IF IsAPIRoute(web.Path) /\ HeaderGet(web.Header, web.headerName) = <<>>
        THEN HttpError(web,
                 <<"missing required header: ">> \o web.headerName,
                 StatusForbidden)
        ELSE NextServeHTTP(web, b)
    /\ UNCHANGED <<coreVars, tool, directory, requests, children, runner>>

NextWeb ==
    \/ \E b \in HandlerBehaviours : CSRFServeHTTP(b)
    \/ \E b \in HandlerBehaviours : RequireHeaderServeHTTP(b)

SpecWeb == InitWeb /\ [][NextWeb]_vars

-----------------------------------------------------------------------------
(* The middlewares: properties checked under SpecWeb. *)

\* The value of header name of the request as Header.Get gives it: the value
\* of the first header line of that name, whatever the case of its letters.
FirstLineValue(lines, name) ==
    LET is == {i \in 1..Len(lines) :
                  ToLower(lines[i].name) = ToLower(name)}
    IN  IF is = {} THEN <<>>
        ELSE lines[CHOOSE i \in is : \A j \in is : i <= j].value

C20_RequireHeader ==
    (web.pc = "served" /\ web.mw = "require") =>
        IF HasPrefix(web.Path, ApiPrefix)
              /\ FirstLineValue(web.lines, web.headerName) = <<>>
        THEN web.status = StatusForbidden /\ web.handlerCalls = 0
        ELSE web.handlerCalls = 1 /\ ~web.mwWrote

\* C20 witness: "/api" without the header reaches the handler, which answers
\* 200.
C20_Witness ==
    /\ web.pc = "served"
    /\ web.mw = "require"
    /\ web.Path = <<"/","a","p","i">>
    /\ web.lines = <<>>
    /\ web.handlerCalls = 1
    /\ ~web.mwWrote
    /\ web.status = StatusOK

-----------------------------------------------------------------------------
(* The conversation directory behind SubagentDB: resolve_or_create as a      *)
(* lookup step and a create step over a store with a unique index on         *)
(* (parent_id, slug), called by concurrent requests.                         *)

NumCalls == 3

\* A parent id that names no conversation.
P0 == <<"parent-0">>

DirSlugs == {<<"a">>, <<"b">>}

ParentNotFound == <<"parent conversation not found">>
StorageFailure == <<"database is locked">>

\* The store with the parents' conversations and no binding.  nextID numbers
\* the conversations allocated so far.
EmptyDirectory ==
    [bindings |-> {},
     conversations |->
         [p \in Parents |-> [parent_id |-> <<>>, cwd |-> <<"/tmp">>,
                             model |-> ParentModel[p]]],
     nextID |-> 1]

\* The id of the n-th conversation the directory allocates.
ChildID(n) == <<"subagent-", ToString(n)>>

\* A variant of Bound: the slug alone is looked up, whatever the parent.
BoundBySlugOnly(dir, parentID, slug) ==
    {b \in dir.bindings : b.slug = slug}

\* The bindings of (parentID, slug): none or one.
Bound(dir, parentID, slug) ==
    {b \in dir.bindings : b.parent_id = parentID /\ b.slug = slug}

\* A variant of Insert: the store has no unique index, the insertion always
\* succeeds.
InsertNoUniqueIndex(dir, parentID, slug, cwd) ==
    LET id == ChildID(dir.nextID)
    IN  [conflict |-> FALSE,
         dir |->
            [bindings |-> dir.bindings \cup
                 {[parent_id |-> parentID, slug |-> slug, child_id |-> id]},
             conversations |->
                 (id :> [parent_id |-> parentID, cwd |-> cwd,
                         model |-> dir.conversations[parentID].model])
                     @@ dir.conversations,
             nextID |-> dir.nextID + 1]]

\* The create step: allocate a fresh child conversation (new id, the parent's
\* model, working directory cwd) and bind it, unless the unique index finds
\* (parentID, slug) bound, which is a conflict and changes nothing.
Insert(dir, parentID, slug, cwd) ==
    IF Bound(dir, parentID, slug) # {}
    THEN [conflict |-> TRUE, dir |-> dir]
    ELSE LET id == ChildID(dir.nextID)
         IN  [conflict |-> FALSE,
              dir |->
                 [bindings |-> dir.bindings \cup
                      {[parent_id |-> parentID, slug |-> slug,
                        child_id |-> id]},
                  conversations |->
                      (id :> [parent_id |-> parentID, cwd |-> cwd,
                              model |-> dir.conversations[parentID].model])
                          @@ dir.conversations,
                  nextID |-> dir.nextID + 1]]

\* A variant of GetOrCreateArgs: the working directory the tool was built
\* with is handed over, whatever the parent's working directory is now.
GetOrCreateArgsInitialCwd(slug, parentID, cwd) ==
    [slug |-> slug, parentID |-> parentID, cwd |-> <<"/tmp">>]

\* The arguments Run hands to GetOrCreateSubagentConversation.
GetOrCreateArgs(slug, parentID, cwd) ==
    [slug |-> slug, parentID |-> parentID, cwd |-> cwd]

\* A directory call that has not started.  conflicts and existed are
\* history: how often the create step of the call met a binding made by
\* another call, and whether the call returned a binding that it found.
NoRequest ==
    [pc |-> "idle", args |-> NoDBArgs, conversationID |-> <<>>,
     actualSlug |-> <<>>, err |-> <<>>, conflicts |-> 0, existed |-> FALSE]

InitDir ==
    /\ directory = EmptyDirectory
    /\ requests = [r \in 1..NumCalls |-> NoRequest]
    /\ ModelID = ParentModel
    /\ AvailableModels = <<>>
    /\ WorkingDir = [p \in Parents \cup {P0} |-> <<"/tmp">>]
    /\ conversations = <<>>
    /\ call = Idle
    /\ firstReturned = <<>>
    /\ slugIn = <<>>
    /\ slugOut = <<>>
    /\ sanPc = "off"
    /\ tool = NoTool
    /\ web = <<>>
    /\ children = <<>>
    /\ runner = <<>>

\* Run of the tool of parent p calls the directory with a sanitized slug.
DirCall(r, p, slug) ==
    /\ requests[r].pc = "idle"
    /\ requests' = [requests EXCEPT ![r] =
           [NoRequest EXCEPT !.pc = "lookup",
                             !.args = GetOrCreateArgs(slug, p, WorkingDir[p])]]
    /\ UNCHANGED <<coreVars, tool, web, directory, children, runner>>

\* A variant of DirLookup: a binding that is found is returned with a numeric
\* suffix on the slug.
DirLookupSuffixed(r) ==
    /\ requests[r].pc = "lookup"
    /\ LET a == requests[r].args
           found == Bound(directory, a.parentID, a.slug)
       IN  requests' = [requests EXCEPT ![r] =
               IF a.parentID \notin DOMAIN directory.conversations
               THEN [@ EXCEPT !.pc = "done", !.err = ParentNotFound]
               ELSE IF found # {}
               THEN [@ EXCEPT !.pc = "done", !.existed = TRUE,
                        !.conversationID = (CHOOSE b \in found : TRUE).child_id,
                        !.actualSlug = a.slug \o <<"-", "2">>]
               ELSE [@ EXCEPT !.pc = "create"]]
    /\ UNCHANGED <<coreVars, tool, web, directory, children, runner>>

\* A variant of DirLookup: a call of an unknown parent is answered with a
\* child.
DirLookupAnyParent(r) ==
    /\ requests[r].pc = "lookup"
    /\ LET a == requests[r].args
           found == Bound(directory, a.parentID, a.slug)
       IN  requests' = [requests EXCEPT ![r] =
               IF a.parentID \notin DOMAIN directory.conversations
               THEN [@ EXCEPT !.pc = "done", !.conversationID = ChildID(0),
                        !.actualSlug = a.slug]
               ELSE IF found # {}
               THEN [@ EXCEPT !.pc = "done", !.existed = TRUE,
                        !.conversationID = (CHOOSE b \in found : TRUE).child_id,
                        !.actualSlug = a.slug]
               ELSE [@ EXCEPT !.pc = "create"]]
    /\ UNCHANGED <<coreVars, tool, web, directory, children, runner>>

\* The lookup step: an unknown parent is an error, a binding is returned with
\* the requested slug, and without a binding the call goes on to create one.
DirLookup(r) ==
    /\ requests[r].pc = "lookup"
    /\ LET a == requests[r].args
           found == Bound(directory, a.parentID, a.slug)
       IN  requests' = [requests EXCEPT ![r] =
               IF a.parentID \notin DOMAIN directory.conversations
               THEN [@ EXCEPT !.pc = "done", !.err = ParentNotFound]
               ELSE IF found # {}
               THEN [@ EXCEPT !.pc = "done", !.existed = TRUE,
                        !.conversationID = (CHOOSE b \in found : TRUE).child_id,
                        !.actualSlug = a.slug]
               ELSE [@ EXCEPT !.pc = "create"]]
    /\ UNCHANGED <<coreVars, tool, web, directory, children, runner>>

\* The create step: the call binds a fresh child and returns it, or meets a
\* conflict and retries the resolution.
DirCreate(r) ==
    /\ requests[r].pc = "create"
    /\ LET a == requests[r].args
           ins == Insert(directory, a.parentID, a.slug, a.cwd)
       IN  /\ directory' = ins.dir
           /\ requests' = [requests EXCEPT ![r] =
                  IF ins.conflict
                  THEN [@ EXCEPT !.pc = "lookup", !.conflicts = @ + 1]
                  ELSE [@ EXCEPT !.pc = "done",
                           !.conversationID = ChildID(directory.nextID),
                           !.actualSlug = a.slug]]
    /\ UNCHANGED <<coreVars, tool, web, children, runner>>

\* A storage failure ends the call with an error; nothing is retried.
DirFail(r) ==
    /\ requests[r].pc \in {"lookup", "create"}
    /\ requests' = [requests EXCEPT ![r] =
           [@ EXCEPT !.pc = "done", !.err = StorageFailure]]
    /\ UNCHANGED <<coreVars, tool, web, directory, children, runner>>

NextDir ==
    \/ \E r \in 1..NumCalls, p \in Parents \cup {P0}, slug \in DirSlugs :
           DirCall(r, p, slug)
    \/ \E r \in 1..NumCalls : DirLookup(r)
    \/ \E r \in 1..NumCalls : DirCreate(r)
    \/ \E r \in 1..NumCalls : DirFail(r)

SpecDir == InitDir /\ [][NextDir]_vars

-----------------------------------------------------------------------------
(* The directory: properties checked under SpecDir. *)

\* The calls that returned a child.
Answered == {r \in 1..NumCalls : requests[r].pc = "done" /\ requests[r].err = <<>>}

SameParent(r1, r2) == requests[r1].args.parentID = requests[r2].args.parentID
SameSlug(r1, r2) == requests[r1].args.slug = requests[r2].args.slug

\* The bindings the store holds for parent p and slug s.
BindingsOf(p, s) ==
    {b \in directory.bindings : b.parent_id = p /\ b.slug = s}

\* C11: after any sequence of directory calls, from any parents with any
\* slugs, no two bindings of a parent share a slug, and no step renames,
\* re-points or deletes a binding: every binding of the store is in the
\* store after the step.
C11_BindingUniqueness ==
    /\ [](\A b1, b2 \in directory.bindings :
              (b1.parent_id = b2.parent_id /\ b1.slug = b2.slug) => b1 = b2)
    /\ [][\A b \in directory.bindings : b \in directory'.bindings]_vars

\* C11 witness: two bindings in the store after three calls, two of them from
\* the same parent with the same slug.
C11_Witness ==
    /\ Cardinality(directory.bindings) = 2
    /\ Answered = 1..NumCalls
    /\ \E r1, r2 \in Answered :
           r1 # r2 /\ SameParent(r1, r2) /\ SameSlug(r1, r2)

\* C12: two calls of the same parent with the same slug, however their lookup
\* and create steps interleave, return the same child once both have
\* returned, with the requested slug unsuffixed, and the store holds exactly
\* one binding for that parent and slug.
C12_ConcurrentSameParent ==
    \A r1, r2 \in Answered :
        (r1 # r2 /\ SameParent(r1, r2) /\ SameSlug(r1, r2)) =>
            /\ requests[r1].conversationID = requests[r2].conversationID
            /\ requests[r1].actualSlug = requests[r1].args.slug
            /\ requests[r2].actualSlug = requests[r2].args.slug
            /\ BindingsOf(requests[r1].args.parentID, requests[r1].args.slug) =
                   {[parent_id |-> requests[r1].args.parentID,
                     slug |-> requests[r1].args.slug,
                     child_id |-> requests[r1].conversationID]}

\* C12 witness: a call lost the race (its create step met the binding of the
\* winner) and returned the winner's child.
C12_Witness ==
    \E r1, r2 \in Answered :
        /\ r1 # r2 /\ SameParent(r1, r2) /\ SameSlug(r1, r2)
        /\ requests[r1].conflicts = 0
        /\ requests[r2].conflicts = 1
        /\ requests[r1].conversationID = requests[r2].conversationID

\* C13: calls of two different parents with the same slug return distinct
\* children, each a conversation of its own parent, and a step of a call
\* neither adds nor removes a binding of another parent; the child a step
\* binds is a conversation the store did not hold before.
C13_ParentsIndependent ==
    /\ [](\A r1, r2 \in Answered :
              (~SameParent(r1, r2) /\ SameSlug(r1, r2)) =>
                  /\ requests[r1].conversationID # requests[r2].conversationID
                  /\ directory.conversations[requests[r1].conversationID].parent_id
                         = requests[r1].args.parentID
                  /\ directory.conversations[requests[r2].conversationID].parent_id
                         = requests[r2].args.parentID)
    /\ [][\A r \in 1..NumCalls :
              requests'[r] # requests[r] =>
                  /\ \A b \in directory.bindings \ directory'.bindings :
                         b.parent_id = requests'[r].args.parentID
                  /\ \A b \in directory'.bindings \ directory.bindings :
                         /\ b.parent_id = requests'[r].args.parentID
                         /\ b.child_id \notin DOMAIN directory.conversations]_vars

\* C13 witness: both parents called with slug "a" and hold a child each.
C13_Witness ==
    \E r1, r2 \in Answered :
        /\ requests[r1].args.parentID = P1
        /\ requests[r2].args.parentID = P2
        /\ requests[r1].args.slug = <<"a">>
        /\ requests[r2].args.slug = <<"a">>
        /\ requests[r1].conversationID # requests[r2].conversationID
        /\ Cardinality(directory.bindings) = 2

-----------------------------------------------------------------------------
(* Run over the directory and a Runner: the call blocks in RunSubagent while  *)
(* the child conversation works, and returns when the child has emitted its  *)
(* final turn, when the timeout elapses, when the parent's context is        *)
(* cancelled or when the child fails.                                        *)

TimeoutStatus == <<"<status: the subagent is still working>">>
StartedStatus == <<"<status: the subagent started processing>">>
ContextCanceled == <<"context canceled">>
ChildFailed == <<"child failed">>

\* A variant of RunnerResult: the Runner's error is dropped and the reply is
\* composed.
RunnerResultIgnoresError(c, response, err) ==
    [c EXCEPT
        !.pc = "returned",
        !.response = response,
        !.out = ComposeReply(c.actualSlug, c.dbArgs.slug, c.conversationID,
                             response)]

\* A variant of RunnerResult: the Runner's error is returned as it is, in a
\* reply with a Display.
RunnerResultBareError(c, response, err) ==
    IF err # <<>>
    THEN [c EXCEPT !.pc = "returned",
                   !.out = [ErrorfToolOut(err) EXCEPT
                               !.hasDisplay = TRUE,
                               !.Display = [slug |-> c.actualSlug,
                                            conversation_id |-> c.conversationID]]]
    ELSE [c EXCEPT
             !.pc = "returned",
             !.response = response,
             !.out = ComposeReply(c.actualSlug, c.dbArgs.slug,
                                  c.conversationID, response)]

\* Run from the return of s.Runner.RunSubagent, with (response, err), to its
\* own return; c is the call.
RunnerResult(c, response, err) ==
    IF err # <<>>
    THEN [c EXCEPT !.pc = "returned",
                   !.out = ErrorfToolOut(<<"subagent error: ">> \o err)]
    ELSE [c EXCEPT
             !.pc = "returned",
             !.response = response,
             !.out = ComposeReply(c.actualSlug, c.dbArgs.slug,
                                  c.conversationID, response)]

\* resolve_or_create as one call that no other call interleaves with: the
\* lookup step and, without a binding, the create step.
ResolveOrCreate(dir, args) ==
    LET found == Bound(dir, args.parentID, args.slug)
        ins == Insert(dir, args.parentID, args.slug, args.cwd)
    IN  IF args.parentID \notin DOMAIN dir.conversations
        THEN [dir |-> dir, conversationID |-> <<>>, actualSlug |-> <<>>,
              err |-> ParentNotFound]
        ELSE IF found # {}
        THEN [dir |-> dir,
              conversationID |-> (CHOOSE b \in found : TRUE).child_id,
              actualSlug |-> args.slug, err |-> <<>>]
        ELSE [dir |-> ins.dir, conversationID |-> ChildID(dir.nextID),
              actualSlug |-> args.slug, err |-> <<>>]

\* The context the Runner runs the child's agent loop under: the caller's, or
\* one derived from it.
ChildContext(p) == p

\* The Runner hands the prompt to child conversation id for the call of
\* parent p: the child works.  left is history: a timeout left it working.
StartChild(kids, id, p) ==
    (id :> [state |-> "working",
            text |-> IF id \in DOMAIN kids THEN kids[id].text ELSE <<>>,
            context |-> ChildContext(p),
            left |-> IF id \in DOMAIN kids THEN kids[id].left ELSE FALSE])
        @@ kids

\* The requests of SpecRun: two raw slugs of one sanitized slug, wait absent
\* or false, a request Run rejects.
RunInputs ==
    {Obj(JStr(s), JStr(<<"p">>), JAbsent, w, JAbsent) :
        s \in {<<"a">>, <<"A">>}, w \in {JAbsent, JBool(FALSE)}}
    \cup {Obj(JStr(<<"a">>), JStr(<<>>), JAbsent, JAbsent, JAbsent)}

InitRun ==
    /\ ModelID = ParentModel
    /\ AvailableModels = <<>>
    /\ WorkingDir = [p \in Parents |-> <<"/tmp">>]
    /\ conversations = <<>>
    /\ call = Idle
    /\ firstReturned = <<>>
    /\ slugIn = <<>>
    /\ slugOut = <<>>
    /\ sanPc = "off"
    /\ tool = NoTool
    /\ web = <<>>
    /\ directory = EmptyDirectory
    /\ requests = <<>>
    /\ children = <<>>
    /\ runner = [cancelled |-> [p \in Parents |-> FALSE], outcome |-> "none"]

\* SpecRun's Run of the tool of parent p on payload raw, up to its return or
\* to the call of the Runner, which starts the child.
RunDispatch(p, raw) ==
    /\ call.pc = "idle"
    /\ LET pre == RunPrefix(ModelID[p], AvailableModels, raw)
           db == ResolveOrCreate(directory,
                     GetOrCreateArgs(pre.slug, p, WorkingDir[p]))
       IN  IF pre.ok
           THEN /\ Dispatch(p, raw, pre,
                       DBAnswer(conversations, db.conversationID,
                                db.actualSlug, db.err))
                /\ directory' = db.dir
                /\ children' = IF db.err = <<>>
                               THEN StartChild(children, db.conversationID, p)
                               ELSE children
           ELSE /\ Reject(p, raw, pre)
                /\ UNCHANGED <<directory, children>>
    /\ runner' = [runner EXCEPT !.outcome = "none"]
    /\ UNCHANGED <<slugIn, slugOut, sanPc, ModelID, AvailableModels, WorkingDir,
                   firstReturned, tool, web, requests>>

\* The call in flight blocks in the Runner.
Blocked == call.pc = "running"
Cancelled == runner.cancelled[call.parent]

\* RunSubagent returns (response, err) with outcome o and Run returns.
RunnerReturn(response, err, o) ==
    /\ call' = RunnerResult(call, response, err)
    /\ runner' = [runner EXCEPT !.outcome = o]
    /\ UNCHANGED <<slugIn, slugOut, sanPc, ModelID, AvailableModels, WorkingDir,
                   conversations, firstReturned, tool, web, directory,
                   requests>>

\* wait = false: the Runner returns promptly with a status, which may be
\* empty.
RunnerStarted(status) ==
    /\ Blocked /\ ~Cancelled
    /\ ~call.runnerArgs.wait
    /\ RunnerReturn(status, <<>>, "Responded")
    /\ UNCHANGED children

\* wait = true: the child has emitted its final turn, the Runner returns its
\* text.
RunnerResponds ==
    /\ Blocked /\ ~Cancelled
    /\ call.runnerArgs.wait
    /\ children[call.conversationID].state = "idle"
    /\ RunnerReturn(children[call.conversationID].text, <<>>, "Responded")
    /\ UNCHANGED children

\* A variant of AfterTimeout: the child is torn down when the wait times out.
AfterTimeoutAborts(kid) == [kid EXCEPT !.state = "aborted"]

\* The child after the timeout of the call that waited for it: it goes on.
AfterTimeout(kid) == [kid EXCEPT !.left = TRUE]

\* wait = true: the timeout elapses while the child works; the Runner returns
\* a status and no error.
RunnerTimesOut ==
    /\ Blocked /\ ~Cancelled
    /\ call.runnerArgs.wait
    /\ children[call.conversationID].state = "working"
    /\ RunnerReturn(TimeoutStatus, <<>>, "TimedOut")
    /\ children' = [children EXCEPT ![call.conversationID] = AfterTimeout(@)]

\* The caller's context is cancelled: the Runner returns its error.
RunnerCancelled ==
    /\ Blocked /\ Cancelled
    /\ RunnerReturn(<<>>, ContextCanceled, "Cancelled")
    /\ UNCHANGED children

\* The child fails: the Runner returns the child's error.
RunnerFails ==
    /\ Blocked /\ ~Cancelled
    /\ children[call.conversationID].state = "working"
    /\ RunnerReturn(<<>>, ChildFailed, "Failed")
    /\ children' = [children EXCEPT ![call.conversationID].state = "idle"]

\* The parent's conversation is cancelled while its subagent call is in
\* flight.
Cancel(p) ==
    /\ Blocked /\ call.parent = p
    /\ ~runner.cancelled[p]
    /\ runner' = [runner EXCEPT !.cancelled[p] = TRUE]
    /\ UNCHANGED <<coreVars, tool, web, directory, requests, children>>

\* The child's agent loop sees the cancellation of its context.
ChildSeesCancel(id) ==
    children[id].context \in Parents /\ runner.cancelled[children[id].context]

\* The child emits its final turn.
ChildCompletes(id, text) ==
    /\ children[id].state = "working"
    /\ ~ChildSeesCancel(id)
    /\ children' = [children EXCEPT ![id].state = "idle", ![id].text = text]
    /\ UNCHANGED <<coreVars, tool, web, directory, requests, runner>>

\* The child's agent loop stops on the cancellation of its context.
ChildAborts(id) ==
    /\ children[id].state = "working"
    /\ ChildSeesCancel(id)
    /\ children' = [children EXCEPT ![id].state = "aborted"]
    /\ UNCHANGED <<coreVars, tool, web, directory, requests, runner>>

RunnerReturns ==
    \/ \E status \in {<<>>, StartedStatus} : RunnerStarted(status)
    \/ RunnerResponds
    \/ RunnerTimesOut
    \/ RunnerCancelled
    \/ RunnerFails

NextRun ==
    \/ \E p \in Parents, raw \in RunInputs : RunDispatch(p, raw)
    \/ \E status \in {<<>>, StartedStatus} : RunnerStarted(status)
    \/ RunnerResponds
    \/ RunnerTimesOut
    \/ RunnerCancelled
    \/ RunnerFails
    \/ TakeOutput
    \/ \E p \in Parents : Cancel(p)
    \/ \E id \in DOMAIN children, text \in Responses : ChildCompletes(id, text)
    \/ \E id \in DOMAIN children : ChildAborts(id)

\* RunSubagent returns: the wait is bounded by the timeout.
SpecRun == InitRun /\ [][NextRun]_vars /\ WF_vars(RunnerReturns)

-----------------------------------------------------------------------------
(* Outcomes, cancellation and timeout: properties checked under SpecRun. *)

\* The call was dispatched to the Runner and has returned.
DispatchedAndReturned == call.pc = "returned" /\ call.runnerCalled

\* The reply Run composes around text for the call.
ReplyWith(text) ==
    <<"Subagent '">> \o call.actualSlug \o <<"' response:">> \o <<"\n">> \o text

\* C14: every call dispatched to the Runner returns, with exactly one of the
\* outcomes Responded, TimedOut, Cancelled and Failed, which it keeps;
\* Responded and TimedOut give a successful tool result (no Error; the reply
\* carries the child's text or the Runner's status, the timeout status for
\* TimedOut), Cancelled and Failed give a tool error.
C14_Outcomes ==
    /\ [](DispatchedAndReturned =>
            /\ runner.outcome \in {"Responded", "TimedOut", "Cancelled", "Failed"}
            /\ runner.outcome \in {"Responded", "TimedOut"} =>
                   /\ ~call.out.isErr /\ call.out.Error = <<>>
                   /\ call.out.hasContent
                   /\ call.out.LLMContent = ReplyWith(call.response)
                   /\ (call.response = TimeoutStatus)
                          <=> (runner.outcome = "TimedOut")
            /\ runner.outcome \in {"Cancelled", "Failed"} =>
                   /\ call.out.isErr /\ call.out.Error # <<>>
                   /\ ~call.out.hasContent)
    /\ [](Blocked => runner.outcome = "none")
    /\ [][(DispatchedAndReturned /\ call'.pc = "returned")
              => runner'.outcome = runner.outcome]_vars
    /\ (Blocked ~> DispatchedAndReturned)

\* C14 witness: a call that waited returned the timeout status as a
\* successful result.
C14_Witness ==
    /\ DispatchedAndReturned
    /\ runner.outcome = "TimedOut"
    /\ ~call.out.isErr
    /\ call.out.LLMContent = <<"Subagent '", "a", "' response:", "\n">> \o TimeoutStatus

\* C15: when the parent's context is cancelled while its subagent call is in
\* flight, the call eventually returns a tool error, the cancellation error
\* of the Runner, and the child of the call runs under the cancelled context.
C15_Cancellation ==
    /\ (Blocked /\ Cancelled) ~>
           (/\ DispatchedAndReturned
            /\ call.out.isErr
            /\ ~call.out.hasContent
            /\ call.out.Error = <<"subagent error: ">> \o ContextCanceled)
    /\ []((Blocked /\ Cancelled) =>
              children[call.conversationID].context = call.parent)

\* C15 witness: the call of a cancelled parent returned the cancellation
\* error and the child's agent loop has stopped.
C15_Witness ==
    /\ DispatchedAndReturned
    /\ runner.outcome = "Cancelled"
    /\ runner.cancelled[call.parent]
    /\ call.out.isErr
    /\ children[call.conversationID].state = "aborted"

\* The child the directory binds to the parent and slug of the call.
BoundChild ==
    (CHOOSE b \in directory.bindings :
        b.parent_id = call.parent /\ b.slug = call.dbArgs.slug).child_id

-----------------------------------------------------------------------------
(* server/middleware.go: gzipHandler around a wrapped handler, over a        *)
(* response writer that records the status, the header and the body.        *)
(* Response header names are strings; bodies are sequences of bytes.         *)

AcceptEncoding ==
    <<"A","c","c","e","p","t","-","E","n","c","o","d","i","n","g">>
GzipToken == <<"g","z","i","p">>

\* strings.Contains
StringsContains(s, substr) ==
    \E i \in 0..(Len(s) - Len(substr)) :
        SubSeq(s, i + 1, i + Len(substr)) = substr

\* http.Header of the response: Set, Add and Del on name -> values.
HeaderSet(h, k, v) == (k :> <<v>>) @@ [x \in DOMAIN h \ {k} |-> h[x]]
HeaderAdd(h, k, v) ==
    (k :> (IF k \in DOMAIN h THEN Append(h[k], v) ELSE <<v>>))
        @@ [x \in DOMAIN h \ {k} |-> h[x]]
HeaderDel(h, k) == [x \in DOMAIN h \ {k} |-> h[x]]

\* The response writer: header is the map the handlers change, sent the
\* header as it was when the status line was written.
NewRecorder(header) ==
    [header |-> header, wroteHeader |-> FALSE, status |-> 0, sent |-> <<>>,
     body |-> <<>>]

\* ResponseWriter.WriteHeader: the first call fixes the status and the header.
WriteHeader(rw, code) ==
    IF rw.wroteHeader THEN rw
    ELSE [rw EXCEPT !.wroteHeader = TRUE, !.status = code, !.sent = rw.header]

\* ResponseWriter.Write: writes the status line with 200 if none was written.
RWWrite(rw, b) ==
    LET w == WriteHeader(rw, StatusOK)
    IN  [w EXCEPT !.body = w.body \o b]

\* compress/gzip: the stream is a header, the deflated bytes and a trailer
\* with their number.  The deflated form of bytes is the list of their runs,
\* each as its length and its byte.
GzipMagic == "GZ"

RECURSIVE RunLength(_, _)
\* The length of the run of byte c that s starts with.
RunLength(s, c) ==
    IF s = <<>> \/ Head(s) # c THEN 0 ELSE 1 + RunLength(Tail(s), c)

RECURSIVE Deflate(_)
Deflate(s) ==
    IF s = <<>> THEN <<>>
    ELSE LET n == RunLength(s, Head(s))
         IN  <<ToString(n), Head(s)>> \o Deflate(SubSeq(s, n + 1, Len(s)))

GzipTrailer(s) == <<"len", ToString(Len(s))>>

\* A gzip.Writer: whether it wrote the stream's header, whether it is
\* closed, and the bytes it holds until Close.
NewGzipWriter == [wroteHeader |-> FALSE, closed |-> FALSE, pending |-> <<>>]

\* A writer as a handler left it in the pool: closed.
UsedGzipWriter == [wroteHeader |-> TRUE, closed |-> TRUE, pending |-> <<>>]

\* A variant of GzipReset: the writer taken from the pool keeps its state.
GzipResetKeepsState(gw) == gw

\* gw.Reset(w)
GzipReset(gw) == NewGzipWriter

\* gw.Write(b) on the pair s of the gzip writer and the response writer below
\* it: the first Write writes the stream's header through.
GzipWrite(s, b) ==
    IF s.gw.closed THEN s
    ELSE [gw |-> [s.gw EXCEPT !.wroteHeader = TRUE,
                              !.pending = s.gw.pending \o b],
          rw |-> IF s.gw.wroteHeader THEN s.rw
                 ELSE RWWrite(s.rw, <<GzipMagic>>)]

\* gw.Close(): the header if no Write wrote it, the deflated bytes, the
\* trailer.
GzipClose(s) ==
    IF s.gw.closed THEN s
    ELSE [gw |-> [wroteHeader |-> TRUE, closed |-> TRUE, pending |-> <<>>],
          rw |-> RWWrite(s.rw,
                    (IF s.gw.wroteHeader THEN <<>> ELSE <<GzipMagic>>)
                        \o Deflate(s.gw.pending) \o GzipTrailer(s.gw.pending))]

\* What the wrapped handler does, step by step.
OpSet(name, value) ==
    [op |-> "Set", name |-> name, value |-> value, code |-> 0, bytes |-> <<>>]
OpWriteHeader(code) ==
    [op |-> "WriteHeader", name |-> "", value |-> "", code |-> code,
     bytes |-> <<>>]
OpWrite(bytes) ==
    [op |-> "Write", name |-> "", value |-> "", code |-> 0, bytes |-> bytes]

GzipHandlerBehaviours ==
    {<<>>,
     <<OpSet("Content-Type", "application/json"), OpWrite(<<"a","a","b">>)>>,
     <<OpWrite(<<"a">>), OpWrite(<<"a","b","b">>)>>,
     <<OpWriteHeader(StatusForbidden), OpWrite(<<"b">>)>>,
     <<OpWriteHeader(StatusOK)>>,
     <<OpSet("Content-Length", "3"), OpWrite(<<"a","b","a">>)>>}

RECURSIVE ServeOps(_, _, _)
\* The wrapped handler runs ops on the writer it was given: the response
\* writer itself, or, when compressed, a gzipResponseWriter, whose Write is
\* the gzip writer's and whose other methods are the response writer's.
ServeOps(ops, s, compressed) ==
    IF ops = <<>> THEN s
    ELSE LET o == Head(ops)
             after ==
                 IF o.op = "Set"
                 THEN [s EXCEPT !.rw.header = HeaderSet(@, o.name, o.value)]
                 ELSE IF o.op = "WriteHeader"
                 THEN [s EXCEPT !.rw = WriteHeader(@, o.code)]
                 ELSE IF compressed THEN GzipWrite(s, o.bytes)
                 ELSE [s EXCEPT !.rw = RWWrite(@, o.bytes)]
         IN  ServeOps(Tail(ops), after, compressed)

\* gzipHandler(next).ServeHTTP(w, r): pooled is the writer gzipWriterPool.Get
\* returns, ops what next does.  The result is the writer put back and w.
GzipServe(header, rw, pooled, ops) ==
    IF ~StringsContains(HeaderGet(header, AcceptEncoding), GzipToken)
    THEN ServeOps(ops, [gw |-> pooled, rw |-> rw], FALSE)
    ELSE LET h1 == HeaderSet(rw.header, "Content-Encoding", "gzip")
             h2 == HeaderAdd(h1, "Vary", "Accept-Encoding")
             h3 == HeaderDel(h2, "Content-Length")
             start == [gw |-> GzipReset(pooled),
                       rw |-> [rw EXCEPT !.header = h3]]
         IN  GzipClose(ServeOps(ops, start, TRUE))

AcceptEncodingNames == {AcceptEncoding, ToLower(AcceptEncoding)}
AcceptEncodingValues ==
    {<<>>, GzipToken, <<"b","r">>, <<"b","r",",","g","z","i","p">>,
     <<"G","Z","I","P">>}
AcceptEncodingLines ==
    UNION {[1..n -> [name : AcceptEncodingNames, value : AcceptEncodingValues]] :
              n \in 0..MaxHeaders}

\* The header of the response when gzipHandler is entered: empty, or with a
\* Content-Length a handler around it has set.
EnteringHeaders == {<<>>, HeaderSet(<<>>, "Content-Length", "3")}

NoOps == <<>>

InitGzip ==
    /\ \E lines \in AcceptEncodingLines, h \in EnteringHeaders,
          pooled \in {NewGzipWriter, UsedGzipWriter} :
           web = [pc |-> "received", lines |-> lines,
                  Header |-> ReadHeader(lines, <<>>),
                  entering |-> h, pooled |-> pooled, ops |-> NoOps,
                  rw |-> NewRecorder(h)]
    /\ ModelID = ParentModel
    /\ AvailableModels = <<>>
    /\ WorkingDir = [p \in Parents |-> <<"/tmp">>]
    /\ conversations = <<>>
    /\ call = Idle
    /\ firstReturned = <<>>
    /\ slugIn = <<>>
    /\ slugOut = <<>>
    /\ sanPc = "off"
    /\ tool = NoTool
    /\ directory = <<>>
    /\ requests = <<>>
    /\ children = <<>>
    /\ runner = <<>>

\* The handler gzipHandler(next) serves the request; next does ops.
GzipServeHTTP(ops) ==
    /\ web.pc = "received"
    /\ LET s == GzipServe(web.Header, web.rw, web.pooled, ops)
       IN  web' = [web EXCEPT !.pc = "served", !.ops = ops, !.rw = s.rw,
                              !.pooled = s.gw]
    /\ UNCHANGED <<coreVars, tool, directory, requests, children, runner>>

NextGzip == \E ops \in GzipHandlerBehaviours : GzipServeHTTP(ops)

SpecGzip == InitGzip /\ [][NextGzip]_vars

-----------------------------------------------------------------------------
(* gzipHandler: properties checked under SpecGzip. *)

RECURSIVE Written(_)
\* The bytes the wrapped handler wrote, in the order of its writes.
Written(ops) ==
    IF ops = <<>> THEN <<>>
    ELSE (IF Head(ops).op = "Write" THEN Head(ops).bytes ELSE <<>>)
             \o Written(Tail(ops))

RECURSIVE Inflate(_, _)
\* The bytes whose runs d lists, each run at most max long.
Inflate(d, max) ==
    IF Len(d) < 2 THEN <<>>
    ELSE LET ns == {n \in 1..max : ToString(n) = d[1]}
         IN  IF ns = {} THEN <<"?">>
             ELSE [i \in 1..(CHOOSE n \in ns : TRUE) |-> d[2]]
                      \o Inflate(SubSeq(d, 3, Len(d)), max)

\* What a gzip reader makes of body: whether it is one well-formed stream,
\* and the decompressed bytes.
Gunzip(body) ==
    IF Len(body) < 3 \/ body[1] # GzipMagic \/ body[Len(body) - 1] # "len"
           \/ (Len(body) - 3) % 2 # 0
    THEN [ok |-> FALSE, bytes |-> <<>>]
    ELSE LET total == {n \in 0..Len(body) * Len(body) :
                          ToString(n) = body[Len(body)]}
             bytes == Inflate(SubSeq(body, 2, Len(body) - 2),
                              Len(body) * Len(body))
         IN  [ok |-> total = {Len(bytes)}, bytes |-> bytes]

\* The response of the wrapped handler served without gzipHandler.
HandlerAlone == ServeOps(web.ops, [gw |-> NewGzipWriter,
                                   rw |-> NewRecorder(web.entering)], FALSE).rw

\* C21: gzipHandler compresses if and only if the request's Accept-Encoding
\* contains "gzip": then the response is sent with Content-Encoding gzip and
\* its body decompresses to exactly the bytes the wrapped handler wrote; else
\* the response is the wrapped handler's own, with no Content-Encoding.
C21_GzipRoundTrip ==
    web.pc = "served" =>
        IF Contains(FirstLineValue(web.lines, AcceptEncoding), GzipToken)
        THEN /\ web.rw.wroteHeader
             /\ "Content-Encoding" \in DOMAIN web.rw.sent
             /\ web.rw.sent["Content-Encoding"] = <<"gzip">>
             /\ Gunzip(web.rw.body).ok
             /\ Gunzip(web.rw.body).bytes = Written(web.ops)
        ELSE /\ web.rw = HandlerAlone
             /\ "Content-Encoding" \notin DOMAIN web.rw.header
             /\ web.rw.body = Written(web.ops)

\* A request with "br,gzip" served by a writer taken used from the pool, the
\* handler writing twice: the body is a gzip stream of the bytes written.
C21_Witness ==
    /\ web.pc = "served"
    /\ FirstLineValue(web.lines, AcceptEncoding)
           = <<"b","r",",","g","z","i","p">>
    /\ web.entering # <<>>
    /\ Len(web.ops) = 2 /\ web.ops[1].op = "Write" /\ web.ops[2].op = "Write"
    /\ web.rw.body # Written(web.ops)
    /\ Gunzip(web.rw.body).bytes = <<"a","a","b","b">>
    /\ web.rw.sent["Content-Encoding"] = <<"gzip">>
    /\ web.pooled.closed

-----------------------------------------------------------------------------
(* The order of Run's tests and the model's membership: properties checked   *)
(* under Spec.                                                               *)

\* The payload decodes with a slug that is not empty.
HasSlug(raw) == ~Undecodable(raw) /\ raw.slug.s # <<>>

AlphanumericError == <<"slug must contain alphanumeric characters">>
PromptRequiredError == <<"prompt is required">>

\* C22 as stated: a request whose slug is non-empty and whose prompt is empty
\* is rejected with "prompt is required" whatever its slug sanitizes to, and
\* "slug must contain alphanumeric characters" is the error only of requests
\* with a non-empty prompt.
C22_AsStated ==
    call.pc = "returned" =>
        /\ (HasSlug(call.raw) /\ call.raw.prompt.s = <<>>) =>
               (call.out.isErr /\ call.out.Error = PromptRequiredError)
        /\ (call.out.isErr /\ call.out.Error = AlphanumericError) =>
               call.raw.prompt.s # <<>>

\* C22 as amended: the slug is sanitized and tested before the prompt is: a
\* request whose slug is non-empty and sanitizes to "" is rejected with "slug
\* must contain alphanumeric characters" whatever its prompt, and "prompt is
\* required" is the error only of requests whose slug sanitizes to a
\* non-empty slug; either way neither the directory nor the Runner is called.
C22_SlugBeforePrompt ==
    call.pc = "returned" =>
        /\ (HasSlug(call.raw) /\ sanitizeSlug(call.raw.slug.s) = <<>>) =>
               (RejectedCall /\ call.out.Error = AlphanumericError)
        /\ (call.out.isErr /\ call.out.Error = PromptRequiredError) =>
               /\ RejectedCall
               /\ call.raw.prompt.s = <<>>
               /\ sanitizeSlug(call.raw.slug.s) # <<>>
        /\ (HasSlug(call.raw) /\ sanitizeSlug(call.raw.slug.s) # <<>>
                /\ call.raw.prompt.s = <<>>) =>
               (RejectedCall /\ call.out.Error = PromptRequiredError)

\* C22 witness: two defects in one request, a slug that sanitizes to "" and
\* no prompt; the slug's error is the one returned.
C22_Witness ==
    /\ RejectedCall
    /\ HasSlug(call.raw)
    /\ sanitizeSlug(call.raw.slug.s) = <<>>
    /\ call.raw.prompt.t = "string"
    /\ call.raw.prompt.s = <<>>
    /\ call.out.Error = AlphanumericError

\* The payload decodes, passes the slug and prompt tests and names a model.
NamesModel(raw) == FieldsValid(raw) /\ raw.model.s # <<>>

\* C23 as stated: for every registry, the empty one too, a request that names
\* a model outside the registry is rejected with a tool error and does not
\* reach the Runner with that model.
C23_AsStated ==
    (call.pc # "idle" /\ NamesModel(call.raw)
        /\ call.raw.model.s \notin RegistryIDs) =>
        /\ call.pc = "returned"
        /\ call.out.isErr
        /\ ~call.runnerCalled

\* C23 as amended: when the registry is not empty, a request that names a
\* model outside it is rejected with a tool error and reaches neither the
\* directory nor the Runner; when the registry is empty, no model is refused:
\* the request reaches the Runner with the model it names.
C23_Membership ==
    (call.pc # "idle" /\ NamesModel(call.raw)) =>
        IF Len(AvailableModels) > 0
        THEN IF call.raw.model.s \in RegistryIDs
             THEN call.runnerCalled
                      /\ call.runnerArgs.modelID = call.raw.model.s
             ELSE RejectedCall /\ Head(call.out.Error) = "unknown model "
        ELSE /\ call.runnerCalled
             /\ call.runnerArgs.modelID = call.raw.model.s

\* C23 witness: a tool without a registry handed the Runner a model that its
\* parent does not run on.
C23_Witness ==
    /\ call.runnerCalled
    /\ AvailableModels = <<>>
    /\ call.raw.model.s = <<"x", "\"">>
    /\ call.runnerArgs.modelID = <<"x", "\"">>
    /\ ModelID[call.parent] # call.runnerArgs.modelID

-----------------------------------------------------------------------------
(* The slug the directory returns: properties checked under SpecDir. *)

\* The binding a call that returned a child was answered with.
AnswerOf(r) ==
    [parent_id |-> requests[r].args.parentID,
     slug |-> requests[r].actualSlug,
     child_id |-> requests[r].conversationID]

-----------------------------------------------------------------------------
(* The uniqueness allocator of the directory: a caller that requires a new   *)
(* child for a bound slug gets the slug with a numeric suffix.  Run over a   *)
(* directory that may force a new child.                                     *)

MaxChildren == 4

\* slug-n
SuffixedSlug(slug, n) == slug \o <<"-", ToString(n)>>

\* The suffixes the allocator may try on the bindings of dir.
Suffixes(dir) == 2..(Cardinality(dir.bindings) + 2)

\* A variant of AllocateSuffix: the first suffix is tried and no other.
AllocateSuffixAlwaysTwo(dir, parentID, slug) == 2

\* The uniqueness allocator: -2, -3, ... are appended until an unbound slug
\* is produced; the suffix of that slug.
AllocateSuffix(dir, parentID, slug) ==
    CHOOSE n \in Suffixes(dir) :
        /\ Bound(dir, parentID, SuffixedSlug(slug, n)) = {}
        /\ \A m \in 2..(n - 1) :
               Bound(dir, parentID, SuffixedSlug(slug, m)) # {}

\* resolve_or_create by a caller that requires a new child: a bound slug is
\* not reused, the child is bound under the slug the allocator produces.
ResolveOrCreateNew(dir, args) ==
    LET found == Bound(dir, args.parentID, args.slug)
        actual == IF found = {} THEN args.slug
                  ELSE SuffixedSlug(args.slug,
                           AllocateSuffix(dir, args.parentID, args.slug))
        ins == InsertNoUniqueIndex(dir, args.parentID, actual, args.cwd)
    IN  IF args.parentID \notin DOMAIN dir.conversations
        THEN [dir |-> dir, conversationID |-> <<>>, actualSlug |-> <<>>,
              err |-> ParentNotFound]
        ELSE [dir |-> ins.dir, conversationID |-> ChildID(dir.nextID),
              actualSlug |-> actual, err |-> <<>>]

\* The sanitized slugs of the requests of SpecAlloc.
AllocSlugs == {<<"a">>, <<"a", "-", "2">>}

\* The requests of SpecAlloc: a slug, the slug a suffix gives, another raw
\* slug of the first, a request Run rejects.
AllocInputs ==
    {Obj(JStr(s), JStr(<<"p">>), JAbsent, JAbsent, JAbsent) :
        s \in {<<"a">>, <<"a", "-", "2">>, <<"A">>}}
    \cup {Obj(JStr(<<"a">>), JStr(<<>>), JAbsent, JAbsent, JAbsent)}

\* The history of the allocator: whether the call in flight required a new
\* child, the directory it met, and per (parent, slug) the last suffix handed
\* out, 1 when none was.
NoAllocation ==
    [forced |-> FALSE, before |-> EmptyDirectory,
     last |-> [k \in Parents \X AllocSlugs |-> 1]]

InitAlloc ==
    /\ ModelID = ParentModel
    /\ AvailableModels = <<>>
    /\ WorkingDir = [p \in Parents |-> <<"/tmp">>]
    /\ conversations = <<>>
    /\ call = Idle
    /\ firstReturned = <<>>
    /\ slugIn = <<>>
    /\ slugOut = <<>>
    /\ sanPc = "off"
    /\ tool = NoTool
    /\ web = <<>>
    /\ directory = EmptyDirectory
    /\ requests = <<>>
    /\ children = <<>>
    /\ runner = NoAllocation

\* Run of the tool of parent p on payload raw, up to its return or to the
\* call of the Runner, over a directory that reuses the binding of the slug
\* or, when force, binds a new child.
RunAlloc(p, raw, force) ==
    /\ call.pc = "idle"
    /\ Cardinality(directory.bindings) < MaxChildren
    /\ LET pre == RunPrefix(ModelID[p], AvailableModels, raw)
           args == GetOrCreateArgs(pre.slug, p, WorkingDir[p])
           db == IF force THEN ResolveOrCreateNew(directory, args)
                 ELSE ResolveOrCreate(directory, args)
           handed == force /\ db.err = <<>> /\ db.actualSlug # pre.slug
       IN  IF pre.ok
           THEN /\ Dispatch(p, raw, pre,
                       DBAnswer(conversations, db.conversationID,
                                db.actualSlug, db.err))
                /\ directory' = db.dir
                /\ runner' = [forced |-> force, before |-> directory,
                              last |->
                                  IF handed
                                  THEN [runner.last EXCEPT ![<<p, pre.slug>>] =
                                           AllocateSuffix(directory, p,
                                                          pre.slug)]
                                  ELSE runner.last]
           ELSE /\ Reject(p, raw, pre)
                /\ ~force
                /\ runner' = [runner EXCEPT !.forced = FALSE,
                                            !.before = directory]
                /\ UNCHANGED directory
    /\ UNCHANGED <<slugIn, slugOut, sanPc, ModelID, AvailableModels, WorkingDir,
                   firstReturned, tool, web, requests, children>>

NextAlloc ==
    \/ \E p \in Parents, raw \in AllocInputs, force \in BOOLEAN :
           RunAlloc(p, raw, force)
    \/ \E response \in Responses : RunSubagentReturns(response)
    \/ \E err \in RunnerErrors : RunSubagentFails(err)
    \/ TakeOutput
    \/ \E dir \in Dirs : Cd(P1, dir)

SpecAlloc == InitAlloc /\ [][NextAlloc]_vars

-----------------------------------------------------------------------------
(* The uniqueness allocator: properties checked under SpecAlloc. *)

\* The call in flight required a new child for a slug that the directory it
\* met held bound, and got one.
ForcedOnBound ==
    /\ call.runnerCalled
    /\ runner.forced
    /\ Bound(runner.before, call.parent, call.dbArgs.slug) # {}

\* The slug-change notice of the reply, naming slug.
SlugChangeNotice(slug) ==
    <<" (Note: slug was changed to '">> \o slug
        \o <<"' for uniqueness. Use '">> \o slug
        \o <<"' for future messages to this subagent.)">>

\* Slug s-n is bound for the call's parent in the directory the call met.
TakenBefore(n) ==
    Bound(runner.before, call.parent, SuffixedSlug(call.dbArgs.slug, n)) # {}

\* C25: a call that requires a new child for a bound slug is answered with
\* the slug and the smallest suffix from 2 on that is unbound for its parent
\* (which the bindings determine), bound to a new child; the suffix handed
\* out for a parent and slug is larger than every one handed out for them
\* before; the reply of the call carries the slug-change notice that names
\* the suffixed slug.
C25_Allocator ==
    /\ [](ForcedOnBound =>
            \E n \in 2..(MaxChildren + 1) :
                /\ call.actualSlug = SuffixedSlug(call.dbArgs.slug, n)
                /\ ~TakenBefore(n)
                /\ \A m \in 2..(n - 1) : TakenBefore(m)
                /\ runner.last[<<call.parent, call.dbArgs.slug>>] = n
                /\ [parent_id |-> call.parent, slug |-> call.actualSlug,
                    child_id |-> call.conversationID] \in directory.bindings
                /\ call.conversationID
                       \notin DOMAIN runner.before.conversations
                /\ (call.pc = "returned" /\ ~call.out.isErr) =>
                       /\ Contains(call.out.LLMContent,
                                   SlugChangeNotice(call.actualSlug))
                       /\ call.out.Display.slug = call.actualSlug)
    /\ [][\A k \in Parents \X AllocSlugs :
              /\ runner'.last[k] >= runner.last[k]
              /\ (call.pc = "idle" /\ ForcedOnBound'
                      /\ k = <<call'.parent, call'.dbArgs.slug>>) =>
                     runner'.last[k] > runner.last[k]]_vars

\* C25 witness: with "a" and "a-2" bound for the parent, a call that requires
\* a new child for "a" got "a-3", and its reply names "a-3" in the notice.
C25_Witness ==
    /\ ForcedOnBound
    /\ call.pc = "returned"
    /\ call.dbArgs.slug = <<"a">>
    /\ TakenBefore(2) /\ ~TakenBefore(3)
    /\ call.actualSlug = <<"a", "-", "3">>
    /\ Contains(call.out.LLMContent,
                <<" (Note: slug was changed to '", "a", "-", "3",
                  "' for uniqueness. Use '", "a", "-", "3",
                  "' for future messages to this subagent.)">>)

-----------------------------------------------------------------------------
(* The context of the Runner's call: properties checked under Spec. *)

\* C26 as stated: the context Run invokes the Runner under is derived from
\* the caller's, is cancelled by the caller's cancellation, and has a
\* deadline no later than the resolved timeout after the dispatch.
C26_AsStated ==
    call.runnerCalled =>
        /\ call.runnerArgs.ctx.owner = call.parent
        /\ call.runnerArgs.ctx.derived
        /\ call.runnerArgs.ctx.hasDeadline
        /\ call.runnerArgs.ctx.deadline <= call.runnerArgs.timeout

\* C26 as amended: the context Run invokes the Runner under is the caller's
\* own, so the caller's cancellation is the cancellation the Runner sees; Run
\* derives no context and sets no deadline; the resolved timeout, 1 s to
\* 300 s, goes to the Runner as its timeout argument.
C26_CallerContext ==
    call.runnerCalled =>
        /\ call.runnerArgs.ctx = CallerContext(call.parent)
        /\ call.runnerArgs.ctx.owner = call.parent
        /\ ~call.runnerArgs.ctx.derived
        /\ ~call.runnerArgs.ctx.hasDeadline
        /\ call.runnerArgs.timeout \in 1..MaxTimeoutSeconds

\* C26 witness: a call with timeout_seconds 9999 reached the Runner with the
\* context of its parent, no deadline, and a timeout argument of 300 s.
C26_Witness ==
    /\ call.pc = "running"
    /\ call.raw.timeout_seconds = JNum(9999)
    /\ call.parent = P2
    /\ call.runnerArgs.ctx.owner = P2
    /\ ~call.runnerArgs.ctx.hasDeadline
    /\ call.runnerArgs.timeout = MaxTimeoutSeconds

-----------------------------------------------------------------------------
(* The phases of a call and its errors: properties checked under SpecAny,    *)
(* Spec and SpecRun.                                                         *)

\* The call returned the tool error whose message starts with msg.
ErrorIs(msg) ==
    call.pc = "returned" /\ call.out.isErr /\ Head(call.out.Error) = msg

ParseErrorHead == "failed to parse subagent input"
SlugRequired == "slug is required"
PromptRequired == "prompt is required"
SlugAlphanumeric == "slug must contain alphanumeric characters"
UnknownModelHead == "unknown model "
DirectoryErrorHead == "failed to get/create subagent conversation: "
RunnerErrorHead == "subagent error: "

\* What the phases of the call's payload come to.
Decoded == ~Undecodable(call.raw)
RequiredPresent == call.raw.slug.s # <<>> /\ call.raw.prompt.s # <<>>
SlugResolved == sanitizeSlug(call.raw.slug.s) # <<>>
ModelSelected == ~NamesUnknownModel(call.raw)

\* The directory and the Runner are called after the phases before them, the
\* Runner with the child that the directory returned.
CalledInOrder ==
    /\ call.dbCalled =>
           Decoded /\ RequiredPresent /\ SlugResolved /\ ModelSelected
    /\ call.runnerCalled =>
           /\ call.dbCalled /\ ~ErrorIs(DirectoryErrorHead)
           /\ call.conversationID \in ChildIDs
           /\ call.runnerArgs.conversationID = call.conversationID
    /\ ErrorIs(DirectoryErrorHead) => call.dbCalled /\ ~call.runnerCalled
    /\ ErrorIs(RunnerErrorHead) => call.runnerCalled

\* C27 as stated: a call that fails in a phase has passed the phases before
\* it in the order Decoded, Validated (both required fields), SlugResolved,
\* model selection, and the directory and the Runner are called after all of
\* them.
C27_AsStated ==
    call.pc # "idle" =>
        /\ (ErrorIs(SlugRequired) \/ ErrorIs(PromptRequired)) => Decoded
        /\ ErrorIs(SlugAlphanumeric) => (Decoded /\ RequiredPresent)
        /\ ErrorIs(UnknownModelHead) =>
               (Decoded /\ RequiredPresent /\ SlugResolved)
        /\ CalledInOrder

\* C27 as amended: a call goes through decoding, the test of the slug, the
\* slug's normalization, the test of the prompt and the model selection in
\* this order, a call that fails in one having passed those before it; the
\* directory is called after all of them succeeded and the Runner after the
\* directory returned a child; within a call neither is called again: a call
\* that blocks in the Runner only returns, and a call that returned is over.
C27_PhaseOrder ==
    /\ [](call.pc # "idle" =>
            /\ ErrorIs(SlugRequired) => Decoded
            /\ ErrorIs(SlugAlphanumeric) =>
                   (Decoded /\ call.raw.slug.s # <<>>)
            /\ ErrorIs(PromptRequired) => (Decoded /\ SlugResolved)
            /\ ErrorIs(UnknownModelHead) =>
                   (Decoded /\ RequiredPresent /\ SlugResolved)
            /\ CalledInOrder)
    /\ [][/\ call.pc = "running" =>
                 /\ call'.pc \in {"running", "returned"}
                 /\ call'.dbArgs = call.dbArgs
                 /\ call'.runnerArgs = call.runnerArgs
                 /\ call'.conversationID = call.conversationID
          /\ call.pc = "returned" => call' \in {call, Idle}]_vars

\* C27 witness: a call with a model of the registry went through every phase
\* and the Runner's response is returned.
C27_Witness ==
    /\ call.pc = "returned"
    /\ ~call.out.isErr
    /\ call.dbCalled /\ call.runnerCalled
    /\ Len(AvailableModels) = 2
    /\ call.raw.model.s = <<"h">>
    /\ call.raw.slug.s = <<"A", " ", "b">>
    /\ call.dbArgs.slug = <<"a", "-", "b">>
    /\ call.response = <<"o", "k">>

\* The payload fails at decoding, at the tests of the slug, of the sanitized
\* slug or of the prompt, or at the model's membership.
InvalidInput(raw) ==
    \/ Undecodable(raw)
    \/ raw.slug.s = <<>>
    \/ sanitizeSlug(raw.slug.s) = <<>>
    \/ raw.prompt.s = <<>>
    \/ NamesUnknownModel(raw)

\* The error of an invalid payload, from the payload and the registry alone.
ErrorOfInput(raw) ==
    IF Undecodable(raw) THEN <<ParseErrorHead, ": ">> \o JSONError
    ELSE IF raw.slug.s = <<>> THEN <<SlugRequired>>
    ELSE IF sanitizeSlug(raw.slug.s) = <<>> THEN <<SlugAlphanumeric>>
    ELSE IF raw.prompt.s = <<>> THEN <<PromptRequired>>
    ELSE UnknownModelError(AvailableModels, raw.model.s)

\* C28: a call with an invalid payload returns a tool error and nothing else
\* without a call of the directory or of the Runner; its step leaves the
\* directory as it was, every binding in place and none added; the error is
\* the same for the same payload, whatever the parent, its working directory
\* and the calls before.
C28_NoSideEffects ==
    /\ []((call.pc # "idle" /\ InvalidInput(call.raw)) =>
              /\ RejectedCall
              /\ call.out.Error = ErrorOfInput(call.raw))
    /\ [][(call.pc = "idle" /\ call'.pc # "idle" /\ InvalidInput(call'.raw)) =>
              /\ conversations' = conversations
              /\ firstReturned' = firstReturned]_vars

\* C28 witness: a call without a prompt for a slug that its parent has bound
\* is rejected, and the binding is in place.
C28_Witness ==
    /\ RejectedCall
    /\ call.raw.slug.s = <<"a">>
    /\ call.raw.prompt.s = <<>>
    /\ call.parent = P1
    /\ DBKey(P1, <<"a">>) \in DOMAIN conversations
    /\ conversations[DBKey(P1, <<"a">>)] = <<"subagent-", "a">>
    /\ WorkingDir[P1] = <<"/src">>

\* The directory returned an error to the call.
DirectoryFailed == call.dbCalled /\ ~call.runnerCalled

\* C29: when the directory returns an error, Run returns a tool error, and
\* nothing else, whose message is "failed to get/create subagent
\* conversation: " and the directory's error as it is; the Runner is not
\* called, and the call is over: the directory is not called again.
C29_DirectoryError ==
    /\ [](DirectoryFailed =>
              /\ call.pc = "returned"
              /\ call.out.isErr
              /\ \E err \in DBErrors :
                     /\ call.out.Error = <<DirectoryErrorHead>> \o err
                     /\ Contains(call.out.Error, err)
              /\ ~call.out.hasContent
              /\ ~call.out.hasDisplay
              /\ call.conversationID = <<>>)
    /\ [][DirectoryFailed => call' \in {call, Idle}]_vars

\* C29 witness: the directory answered "database is locked" and the call
\* returned it.
C29_Witness ==
    /\ DirectoryFailed
    /\ call.pc = "returned"
    /\ call.dbArgs.slug = <<"a", "-", "b">>
    /\ call.out.Error =
           <<"failed to get/create subagent conversation: ",
             "database is locked">>

\* The error the Runner returned to the call, by its outcome.
RunnerErrorOf(o) == IF o = "Cancelled" THEN ContextCanceled ELSE ChildFailed

\* C30: when the Runner returns an error, a cancellation or a failure of the
\* child, Run returns a tool error whose message is "subagent error: " and
\* the Runner's error, with no LLM content and no Display; the child of the
\* call stays bound to the parent and slug: the step changes no binding.
C30_RunnerError ==
    /\ []((DispatchedAndReturned /\ runner.outcome \in {"Cancelled", "Failed"}) =>
              /\ call.out.isErr
              /\ call.out.Error =
                     <<RunnerErrorHead>> \o RunnerErrorOf(runner.outcome)
              /\ ~call.out.hasContent /\ call.out.LLMContent = <<>>
              /\ ~call.out.hasDisplay /\ call.out.Display = NoDisplay
              /\ [parent_id |-> call.parent, slug |-> call.actualSlug,
                  child_id |-> call.conversationID] \in directory.bindings
              /\ call.conversationID \in DOMAIN directory.conversations)
    /\ [][(call.pc = "running" /\ call'.pc = "returned") =>
              directory' = directory]_vars

\* C30 witness: the child of the call failed; the call returned "subagent
\* error: child failed" and the child is bound.
C30_Witness ==
    /\ DispatchedAndReturned
    /\ runner.outcome = "Failed"
    /\ ~runner.cancelled[call.parent]
    /\ call.out.Error = <<"subagent error: ", "child failed">>
    /\ ~call.out.hasDisplay
    /\ \E b \in directory.bindings : b.child_id = call.conversationID

-----------------------------------------------------------------------------
(* The working directory of a child: properties checked under SpecAlloc. *)

\* The children of the directory: its conversations but the parents.
Children(dir) == DOMAIN dir.conversations \ Parents

\* C31: the cwd Run passes to the directory is the working directory of the
\* parent at that call; a child created by a call has that working
\* directory; no step changes the working directory of a child there is, a
\* cd of the parent and a call that reuses the binding included.
C31_CwdCapture ==
    /\ [][(call.pc = "idle" /\ call'.dbCalled) =>
              /\ call'.dbArgs.cwd = WorkingDir[call'.parent]
              /\ \A id \in Children(directory') \ Children(directory) :
                     /\ directory'.conversations[id].cwd
                            = WorkingDir[call'.parent]
                     /\ directory'.conversations[id].parent_id = call'.parent
                     /\ id = call'.conversationID]_vars
    /\ [][\A id \in Children(directory) :
              /\ id \in Children(directory')
              /\ directory'.conversations[id].cwd
                     = directory.conversations[id].cwd]_vars

\* C31 witness: the parent changed to /src after a child was bound in /tmp;
\* a call in /src reused that child, which is still in /tmp, and a child
\* bound since is in /src.
C31_Witness ==
    /\ call.runnerCalled
    /\ ~runner.forced
    /\ Bound(runner.before, call.parent, call.dbArgs.slug) # {}
    /\ WorkingDir[call.parent] = <<"/src">>
    /\ call.dbArgs.cwd = <<"/src">>
    /\ directory.conversations[call.conversationID].cwd = <<"/tmp">>
    /\ \E id \in Children(directory) :
           /\ directory.conversations[id].parent_id = call.parent
           /\ directory.conversations[id].cwd = <<"/src">>

-----------------------------------------------------------------------------
(* wait = false: properties checked under SpecRun. *)

\* The call in flight does not wait for its child.
NotWaiting == Blocked /\ ~Cancelled /\ ~call.runnerArgs.wait

\* C32: a call with wait = false can return whatever its child is doing, and
\* the step in which it returns leaves the child as it is; the result is a
\* successful one, its LLM text the header line, a newline and the Runner's
\* text, which may be empty.
C32_NoWait ==
    /\ [](NotWaiting => ENABLED RunnerStarted(<<>>))
    /\ [][(NotWaiting /\ call'.pc = "returned"
              /\ runner'.outcome = "Responded") =>
              /\ children' = children
              /\ ~call'.out.isErr
              /\ call'.out.hasContent /\ call'.out.hasDisplay
              /\ call'.out.LLMContent =
                     <<"Subagent '">> \o call.actualSlug
                         \o <<"' response:", "\n">> \o call'.response]_vars
    /\ []((DispatchedAndReturned /\ ~call.runnerArgs.wait
              /\ runner.outcome = "Responded" /\ call.response = <<>>) =>
              /\ ~call.out.isErr
              /\ call.out.LLMContent =
                     <<"Subagent '">> \o call.actualSlug
                         \o <<"' response:", "\n">>)

\* C32 witness: a call with wait = false returned the empty text of the
\* Runner while its child works.
C32_Witness ==
    /\ DispatchedAndReturned
    /\ call.raw.wait = JBool(FALSE)
    /\ runner.outcome = "Responded"
    /\ call.response = <<>>
    /\ children[call.conversationID].state = "working"
    /\ ~call.out.isErr
    /\ call.out.LLMContent = <<"Subagent '", "a", "' response:", "\n">>

-----------------------------------------------------------------------------
(* A parent that does not exist: properties checked under SpecDir. *)

\* The calls that returned, for a parent id that names no conversation.
OfNoParent ==
    {r \in 1..NumCalls :
        /\ requests[r].pc = "done"
        /\ requests[r].args.parentID \notin DOMAIN directory.conversations}

\* C33: a directory call for a parent id that names no conversation returns
\* an error and no child; no step of such a call changes the directory: the
\* parent is not created and nothing is bound to it.
C33_NoSuchParent ==
    /\ [](\A r \in OfNoParent :
              /\ requests[r].err \in {ParentNotFound, StorageFailure}
              /\ requests[r].conversationID = <<>>
              /\ requests[r].actualSlug = <<>>)
    /\ [](/\ P0 \notin DOMAIN directory.conversations
          /\ \A b \in directory.bindings : b.parent_id # P0
          /\ \A id \in DOMAIN directory.conversations :
                 directory.conversations[id].parent_id # P0)
    /\ [][\A r \in 1..NumCalls :
              (requests[r].args.parentID = P0 /\ requests'[r] # requests[r]
                  /\ requests[r].pc # "idle") =>
                  directory' = directory]_vars

\* C33 witness: a call for the unknown parent returned "parent conversation
\* not found" from a directory that holds bindings of other parents.
C33_Witness ==
    \E r \in OfNoParent :
        /\ requests[r].args.parentID = P0
        /\ requests[r].err = ParentNotFound
        /\ Cardinality(directory.bindings) = 2

-----------------------------------------------------------------------------
(* Run over the mock directory, with the raw slug of the call that bound     *)
(* each (parent, slug) kept as history in runner.                            *)

\* The requests of SpecSlug: raw slugs that sanitize to "a", raw slugs that
\* sanitize to "a-b", one that sanitizes to "".
SlugRawInputs ==
    {Obj(JStr(s), JStr(<<"p">>), JAbsent, JAbsent, JAbsent) :
        s \in {<<"a">>, <<"_", "a", "-">>, <<"A">>, <<"A", " ", "b">>,
               <<"a", "_", "b">>, <<"@">>}}

InitSlug ==
    /\ ModelID = ParentModel
    /\ AvailableModels = <<>>
    /\ WorkingDir = [p \in Parents |-> <<"/tmp">>]
    /\ conversations = <<>>
    /\ call = Idle
    /\ firstReturned = <<>>
    /\ slugIn = <<>>
    /\ slugOut = <<>>
    /\ sanPc = "off"
    /\ tool = NoTool
    /\ web = <<>>
    /\ directory = <<>>
    /\ requests = <<>>
    /\ children = <<>>
    /\ runner = <<>>

\* SubagentTool.Run of the tool of parent p on payload raw, over the mock
\* directory, up to its return or to the call of the Runner.
RunSlug(p, raw) ==
    /\ call.pc = "idle"
    /\ LET pre == RunPrefix(ModelID[p], AvailableModels, raw)
           key == DBKey(p, pre.slug)
           db == GetOrCreateSubagentConversation(
                     conversations, pre.slug, p, WorkingDir[p])
       IN  IF pre.ok
           THEN /\ Dispatch(p, raw, pre, db)
                /\ firstReturned' =
                       IF key \in DOMAIN firstReturned THEN firstReturned
                       ELSE (key :> db.conversationID) @@ firstReturned
                /\ runner' = IF key \in DOMAIN runner THEN runner
                             ELSE (key :> raw.slug.s) @@ runner
           ELSE /\ Reject(p, raw, pre)
                /\ UNCHANGED <<firstReturned, runner>>
    /\ UNCHANGED <<slugIn, slugOut, sanPc, ModelID, AvailableModels, WorkingDir,
                   tool, web, directory, requests, children>>

NextSlug ==
    \/ \E p \in Parents, raw \in SlugRawInputs : RunSlug(p, raw)
    \/ \E response \in Responses : RunSubagentReturns(response)
    \/ \E err \in RunnerErrors : RunSubagentFails(err)
    \/ TakeOutput

SpecSlug == InitSlug /\ [][NextSlug]_vars

-----------------------------------------------------------------------------
(* The slugs of the directory calls: properties checked under SpecSlug. *)

\* s is a slug: not empty, of [a-z0-9-], no '-' at either end, no "--".
ValidSlug(s) ==
    /\ s # <<>>
    /\ \A i \in 1..Len(s) : s[i] \in SlugChars
    /\ s[1] # "-" /\ s[Len(s)] # "-"
    /\ \A i \in 1..(Len(s) - 1) : ~(s[i] = "-" /\ s[i + 1] = "-")

\* C34: the slug of every directory call of Run is a valid slug, the
\* sanitized slug of the request; and the call returns the child bound by
\* the first call of its parent whose slug sanitized to the same slug,
\* whatever the raw slug of that call was.
C34_ValidSlugs ==
    call.dbCalled =>
        LET s == call.dbArgs.slug
            key == DBKey(call.parent, s)
        IN  /\ ValidSlug(s)
            /\ s = sanitizeSlug(call.raw.slug.s)
            /\ key \in DOMAIN runner
            /\ sanitizeSlug(runner[key]) = s
            /\ call.conversationID = firstReturned[key]
            /\ conversations[key] = call.conversationID
            /\ call.actualSlug = s

\* C34 witness: a call with the raw slug "a_b" got the child that a call of
\* its parent with the raw slug "A b" had bound.
C34_Witness ==
    /\ call.dbCalled
    /\ call.existed
    /\ call.raw.slug.s = <<"a", "_", "b">>
    /\ call.dbArgs.slug = <<"a", "-", "b">>
    /\ runner[DBKey(call.parent, <<"a", "-", "b">>)] = <<"A", " ", "b">>
    /\ call.conversationID = firstReturned[DBKey(call.parent, <<"a", "-", "b">>)]

-----------------------------------------------------------------------------
(* The shape of the tool output: properties checked under SpecAny. *)

\* The output is an error and nothing else.
ErrorShape(out) ==
    /\ out.isErr /\ out.Error # <<>>
    /\ ~out.hasContent /\ out.LLMContent = <<>>
    /\ ~out.hasDisplay /\ out.Display = NoDisplay

\* The output is a reply: LLM content and a Display, no error.
ReplyShape(out) ==
    /\ ~out.isErr /\ out.Error = <<>>
    /\ out.hasContent /\ out.LLMContent # <<>>
    /\ out.hasDisplay

\* C35: the output of every call that returned has the error shape or the
\* reply shape, and not both; a reply comes from a call that went through
\* the directory and the Runner, and the conversation id of its Display is
\* the id the directory returned and the Runner was called with.
C35_OutputShape ==
    call.pc = "returned" =>
        /\ ErrorShape(call.out) \/ ReplyShape(call.out)
        /\ ~(ErrorShape(call.out) /\ ReplyShape(call.out))
        /\ ReplyShape(call.out) =>
               /\ call.dbCalled /\ call.runnerCalled
               /\ call.conversationID \in ChildIDs
               /\ call.out.Display.conversation_id = call.conversationID
               /\ call.runnerArgs.conversationID = call.conversationID
        /\ (~call.dbCalled \/ ~call.runnerCalled) => ErrorShape(call.out)

\* C35 witness: a reply with the empty response of the Runner, on the child
\* "c2" that the directory returned under a suffixed slug.
C35_Witness ==
    /\ call.pc = "returned"
    /\ ReplyShape(call.out)
    /\ call.response = <<>>
    /\ call.conversationID = <<"c2">>
    /\ call.actualSlug # call.dbArgs.slug
    /\ call.out.Display.conversation_id = <<"c2">>
    /\ call.runnerArgs.conversationID = <<"c2">>

-----------------------------------------------------------------------------
(* The model a child runs on: a property checked under Spec. *)

\* C36: with a non-empty registry, the model id the Runner is called with is
\* the ModelID of the parent's tool or the ID of a registry entry.
C36_ModelSource ==
    (call.runnerCalled /\ Len(AvailableModels) > 0) =>
        \/ call.runnerArgs.modelID = ModelID[call.parent]
        \/ call.runnerArgs.modelID \in RegistryIDs

\* C36 witness: with a non-empty registry, a call that named no model
\* reached the Runner with the model of its parent, which is not a registry
\* id.
C36_Witness ==
    /\ call.runnerCalled
    /\ Len(AvailableModels) > 0
    /\ call.raw.model.s = <<>>
    /\ call.runnerArgs.modelID = ModelID[call.parent]
    /\ call.runnerArgs.modelID \notin RegistryIDs

-----------------------------------------------------------------------------
(* gzipHandler and Content-Length: a property checked under SpecGzip. *)

\* The response was compressed: the request accepted gzip and was served.
Compressed ==
    /\ web.pc = "served"
    /\ Contains(FirstLineValue(web.lines, AcceptEncoding), GzipToken)

\* C37: a compressed response is sent without a Content-Length header,
\* whether the header was set before gzipHandler was entered or by the
\* wrapped handler while it ran.
C37_NoContentLength ==
    Compressed => "Content-Length" \notin DOMAIN web.rw.sent

-----------------------------------------------------------------------------
(* Notification dispatch of the UI (ui/src/services/notifications):          *)
(* SpecNotify.  web holds the page's state: the handlers Map, the            *)
(* preferences, the outcome of the last dispatch, and the history of the     *)
(* registrations.                                                            *)

ChannelNames == {"favicon", "browser", "test"}
HandlerFns == {"faviconNotificationHandler", "browserNotificationHandler"}
EventTypes == {"type-1", "type-2"}

\* A Map is the sequence of its entries in insertion order.
MapHas(m, k) == \E i \in 1..Len(m) : m[i].name = k

\* A variant of MapSet: setting an existing key moves its entry to the end.
MapSetMovesLast(m, k, v) ==
    Append(SelectSeq(m, LAMBDA e : e.name # k), [name |-> k, handler |-> v])

\* Map.prototype.set: the value of an existing key is replaced where the
\* entry is; a new key is added at the end.
MapSet(m, k, v) ==
    IF MapHas(m, k)
    THEN [i \in 1..Len(m) |->
             IF m[i].name = k THEN [name |-> k, handler |-> v] ELSE m[i]]
    ELSE Append(m, [name |-> k, handler |-> v])

\* registerHandler(name, handler): handlers.set(name, handler)
registerHandler(m, name, handler) == MapSet(m, name, handler)

\* isChannelEnabled(name, type) of ./preferences, on the preference table.
isChannelEnabled(enabled, name, type) == enabled[name][type]

\* No dispatch, or none since the registry or the preferences changed.
\* throwers are the handlers that throw on the event; invoked the entries
\* whose handler was called, in the order of the calls; logged the names
\* console.error was called with; escaped whether an exception left
\* handleNotificationEvent.
NoDispatch ==
    [done |-> FALSE, type |-> "", throwers |-> {}, invoked |-> <<>>,
     logged |-> <<>>, escaped |-> FALSE]

\* A variant of Invoke: the handler is called outside a try block.
InvokeUncaught(d, e) ==
    LET called == [d EXCEPT !.invoked = Append(@, e)]
    IN  IF e.handler \in d.throwers
        THEN [called EXCEPT !.escaped = TRUE]
        ELSE called

\* try { handler(event) } catch (err) { console.error(...) }
Invoke(d, e) ==
    LET called == [d EXCEPT !.invoked = Append(@, e)]
    IN  IF e.handler \in d.throwers
        THEN [called EXCEPT !.logged = Append(@, e.name)]
        ELSE called

RECURSIVE ForEachHandler(_, _, _)
\* for (const [name, handler] of handlers): the entries m left to visit.  An
\* exception that escaped ends the loop.
ForEachHandler(m, enabled, d) ==
    IF m = <<>> \/ d.escaped THEN d
    ELSE LET e == Head(m)
         IN  ForEachHandler(Tail(m), enabled,
                 IF ~isChannelEnabled(enabled, e.name, d.type) THEN d
                 ELSE Invoke(d, e))

\* handleNotificationEvent(event)
handleNotificationEvent(m, enabled, type, throwers) ==
    ForEachHandler(m, enabled,
        [NoDispatch EXCEPT !.done = TRUE, !.type = type,
                           !.throwers = throwers])

\* History of the registrations: firstOrder lists the names in the order
\* each was first registered; lastOrder lists each name with the handler of
\* its latest registration, in the order of those latest registrations.
Registered(h, name, handler) ==
    [firstOrder |-> IF \E i \in 1..Len(h.firstOrder) : h.firstOrder[i] = name
                    THEN h.firstOrder ELSE Append(h.firstOrder, name),
     lastOrder |-> Append(SelectSeq(h.lastOrder, LAMBDA e : e.name # name),
                          [name |-> name, handler |-> handler])]

\* The page after the module is loaded: an empty Map, any preferences.
InitNotify ==
    /\ \E enabled \in [ChannelNames -> [EventTypes -> BOOLEAN]] :
           web = [pc |-> "notify", handlers |-> <<>>, enabled |-> enabled,
                  dispatch |-> NoDispatch,
                  history |-> [firstOrder |-> <<>>, lastOrder |-> <<>>]]
    /\ ModelID = ParentModel
    /\ AvailableModels = <<>>
    /\ WorkingDir = [p \in Parents |-> <<"/tmp">>]
    /\ conversations = <<>>
    /\ call = Idle
    /\ firstReturned = <<>>
    /\ slugIn = <<>>
    /\ slugOut = <<>>
    /\ sanPc = "off"
    /\ tool = NoTool
    /\ directory = <<>>
    /\ requests = <<>>
    /\ children = <<>>
    /\ runner = <<>>

\* A call of registerHandler(name, handler).
RegisterHandler(name, handler) ==
    /\ web.pc = "notify"
    /\ web' = [web EXCEPT
                  !.handlers = registerHandler(@, name, handler),
                  !.history = Registered(@, name, handler),
                  !.dispatch = NoDispatch]
    /\ UNCHANGED <<coreVars, tool, directory, requests, children, runner>>

\* initializeNotifications(): the favicon handler, then the browser handler.
InitializeNotifications ==
    /\ web.pc = "notify"
    /\ web' = [web EXCEPT
                  !.handlers =
                      registerHandler(
                          registerHandler(@, "favicon",
                                          "faviconNotificationHandler"),
                          "browser", "browserNotificationHandler"),
                  !.history =
                      Registered(
                          Registered(@, "favicon",
                                     "faviconNotificationHandler"),
                          "browser", "browserNotificationHandler"),
                  !.dispatch = NoDispatch]
    /\ UNCHANGED <<coreVars, tool, directory, requests, children, runner>>

\* setChannelEnabled(name, b) of ./preferences: the channel is switched for
\* every type of event.
SetChannelEnabled(name, b) ==
    /\ web.pc = "notify"
    /\ web.enabled[name] # [t \in EventTypes |-> b]
    /\ web' = [web EXCEPT !.enabled[name] = [t \in EventTypes |-> b],
                          !.dispatch = NoDispatch]
    /\ UNCHANGED <<coreVars, tool, directory, requests, children, runner>>

\* A call of handleNotificationEvent with an event of the type, on which the
\* handlers in throwers throw.
HandleNotificationEvent(type, throwers) ==
    /\ web.pc = "notify"
    /\ web' = [web EXCEPT !.dispatch =
                  handleNotificationEvent(web.handlers, web.enabled, type,
                                          throwers)]
    /\ UNCHANGED <<coreVars, tool, directory, requests, children, runner>>

NextNotify ==
    \/ \E name \in ChannelNames, handler \in HandlerFns :
           RegisterHandler(name, handler)
    \/ InitializeNotifications
    \/ \E name \in ChannelNames, b \in BOOLEAN : SetChannelEnabled(name, b)
    \/ \E type \in EventTypes, throwers \in SUBSET HandlerFns :
           HandleNotificationEvent(type, throwers)

SpecNotify == InitNotify /\ [][NextNotify]_vars

-----------------------------------------------------------------------------
(* Notification dispatch: properties checked under SpecNotify. *)

\* The place of name in a sequence of names.
PlaceOf(names, name) == CHOOSE i \in 1..Len(names) : names[i] = name

\* The names of a sequence of entries.
NamesOf(entries) == [i \in 1..Len(entries) |-> entries[i].name]

\* The last dispatch called, each once, the latest handler of exactly the
\* registered names whose channel is enabled for the event's type; every
\* exception was caught and logged, and none escaped.
DispatchedEnabledOnce ==
    LET d == web.dispatch
        inv == d.invoked
        last == web.history.lastOrder
    IN  /\ \A i, j \in 1..Len(inv) : inv[i].name = inv[j].name => i = j
        /\ {inv[i].name : i \in 1..Len(inv)}
               = {last[i].name : i \in 1..Len(last)}
                     \cap {n \in ChannelNames : web.enabled[n][d.type]}
        /\ \A i \in 1..Len(inv) :
               inv[i] = last[PlaceOf(NamesOf(last), inv[i].name)]
        /\ ~d.escaped
        /\ d.logged = NamesOf(SelectSeq(inv, LAMBDA e : e.handler \in d.throwers))

\* C38 as stated: the handlers are called in the order they were registered;
\* a handler that replaced another is called after every handler registered
\* before it.
C38_AsStated ==
    web.dispatch.done =>
        /\ DispatchedEnabledOnce
        /\ \A i, j \in 1..Len(web.dispatch.invoked) :
               i < j => PlaceOf(NamesOf(web.history.lastOrder),
                                web.dispatch.invoked[i].name)
                          < PlaceOf(NamesOf(web.history.lastOrder),
                                    web.dispatch.invoked[j].name)

\* C38: handleNotificationEvent calls, each once and in the order in which
\* their names were first registered, the handlers of exactly the registered
\* names whose channel is enabled for the event's type; the handler called
\* for a name is the one registered last under it, in the place of the one
\* it replaced; a handler that throws does not stop the calls after it and
\* its exception does not escape; the Map holds one entry per name.
C38_Dispatch ==
    /\ web.dispatch.done =>
        /\ DispatchedEnabledOnce
        /\ \A i, j \in 1..Len(web.dispatch.invoked) :
               i < j => PlaceOf(web.history.firstOrder,
                                web.dispatch.invoked[i].name)
                          < PlaceOf(web.history.firstOrder,
                                    web.dispatch.invoked[j].name)
    /\ NamesOf(web.handlers) = web.history.firstOrder
    /\ \A i, j \in 1..Len(web.handlers) :
           web.handlers[i].name = web.handlers[j].name => i = j

\* C38 witness: three names are registered and one of them is disabled for
\* the event's type; the first handler called replaced an earlier one after
\* the second was registered, and threw; the second was called all the same.
C38_Witness ==
    /\ web.dispatch.done
    /\ Len(web.handlers) = 3
    /\ Len(web.dispatch.invoked) = 2
    /\ web.dispatch.invoked[1].handler \in web.dispatch.throwers
    /\ web.dispatch.logged # <<>>
    /\ ~web.dispatch.escaped
    /\ PlaceOf(NamesOf(web.history.lastOrder), web.dispatch.invoked[1].name)
           > PlaceOf(NamesOf(web.history.lastOrder),
                     web.dispatch.invoked[2].name)

====
